---- MODULE Spec2Model ----
(***************************************************************************)
(* Model of the operation instrumentation engine of blockchain_examples:   *)
(* MetricsCollector and TaskMetrics (metrics.py), driven by arbitrary      *)
(* start_task / update_task / end_task calls and by the passage of time.   *)
(*                                                                         *)
(* Units.  Timestamps and durations are integer milliseconds.  A           *)
(* complexity score is an integer number of hundredths (2550 is 25.50),    *)
(* which is exactly the precision round(complexity, 2) keeps.              *)
(* Optional[...] attributes are sequences of length at most one:           *)
(* None is << >> and a present value v is << v >>.                         *)
(***************************************************************************)
EXTENDS Integers, Sequences, FiniteSets, TLC

VARIABLES
    active_tasks,   \* MetricsCollector.active_tasks : task_id -> TaskMetrics
    tasks,          \* MetricsCollector.tasks        : task_id -> TaskMetrics
    now,            \* the value time.time() returns, in milliseconds
    last,           \* the last call made on the collector and how it ended
    sums,           \* history: per key, the deltas supplied since its last start
    nStarts,        \* history: number of start_task calls so far
    nUpdates,       \* history: number of accepted update_task calls so far
    ended,          \* history: the successful end_task calls, their number and their gas
    arg,            \* the argument of a call of a function on its own
    returned,       \* what the last call returned, when it was get_summary or such a function
    contract,       \* EventLogger.contract is set (a contract address and ABI were given)
    event_handlers, \* EventLogger.event_handlers : event name -> list of handlers
    invoked,        \* history: the handler invocations of the last EventLogger call, in order
    ecall,          \* the last EventLogger call, its arguments and how it ended
    listener,       \* the call of listen_to_events_async: where it is, and its locals
    threads         \* the callers that are inside a call of the collector's clients (threads,
                    \* jobs, invocations of a wrapped function): where each is, and its locals

collectorVars == <<active_tasks, tasks, now, last, sums, nStarts, nUpdates, ended>>

loggerVars == <<contract, event_handlers, invoked, ecall, listener>>

vars == <<collectorVars, arg, threads, returned, loggerVars>>

----------------------------------------------------------------------------
(* Bounds of the model *)

MaxStarts == 2
MaxUpdates == 2
MaxTime == 10000

(* Inputs *)

Keys == {"tx_001", "watch_transfers_0x742d35Cc"}
Names == {"Test Task"}
Metadatas == {"{}"}
TimeSteps == {5000}

None == << >>
Some(v) == << v >>

\* update_task(task_id, gas_used=..., ...) with only the named arguments given
Delta(gas, tx, calls, data, net) ==
    [gas_used |-> gas, transaction_count |-> tx, contract_calls |-> calls,
     data_size |-> data, network_requests |-> net]

\* The argument lists update_task is called with, after the repository's call sites:
\* a sent transaction (balance_transfer.py:195), the correction to the gas actually
\* used, which is negative when the receipt reports less than the limit
\* (balance_transfer.py:210), a range query (event_logger.py:232), and the ceilings of
\* the score (metrics.py:206-222).
Deltas ==
    { Delta(Some(100000), Some(1), None, None, Some(1)),
      Delta(Some(-79000), None, None, None, None),
      Delta(None, None, None, Some(64), Some(2)),
      Delta(Some(500000), Some(10), Some(10), None, Some(20)) }

CounterNames ==
    {"gas_used", "transaction_count", "contract_calls", "data_size", "network_requests"}

----------------------------------------------------------------------------
(* ComplexityLevel and TaskMetrics *)

ComplexityLevel == {"SIMPLE", "MODERATE", "COMPLEX", "VERY_COMPLEX", "EXTREME"}

\* TaskMetrics(task_id=..., task_name=..., metadata=...) with the dataclass defaults;
\* start_time is time.time() at construction.
TaskMetrics(task_id, task_name, metadata, t) ==
    [task_id |-> task_id,
     task_name |-> task_name,
     start_time |-> t,
     end_time |-> None,
     execution_time |-> None,
     gas_used |-> 0,
     transaction_count |-> 0,
     contract_calls |-> 0,
     data_size |-> 0,
     network_requests |-> 0,
     complexity_score |-> None,
     complexity_level |-> None,
     metadata |-> metadata]

\* TaskMetrics.complete
complete(m, t) ==
    [m EXCEPT !.end_time = Some(t), !.execution_time = Some(t - m.start_time)]

----------------------------------------------------------------------------
(* Arithmetic helpers *)

Min(a, b) == IF a <= b THEN a ELSE b

\* floor(n / d) and the remainder in 0 .. d-1, for d > 0 and any integer n
FloorDiv(n, d) == IF n >= 0 THEN n \div d ELSE -((-n + d - 1) \div d)
FloorMod(n, d) == n - d * FloorDiv(n, d)

\* round(n / d) to the nearest integer, ties to the even one (Python's round)
RoundHalfEven(n, d) ==
    LET q == FloorDiv(n, d)
        r == FloorMod(n, d)
    IN  IF 2 * r < d THEN q
        ELSE IF 2 * r > d THEN q + 1
        ELSE IF q % 2 = 0 THEN q ELSE q + 1

\* a rounding that drops the digits after the last one kept
RoundDown(n, d, tie) == FloorDiv(n, d)

\* round(x, digits) of the float x = n / d. When n / d lies exactly between two
\* neighbours the float nearest to it is above or below the middle, which the
\* integers n and d do not tell: tie says whether the result is the even or the
\* odd neighbour
RoundTie(n, d, tie) ==
    LET q == FloorDiv(n, d)
        r == FloorMod(n, d)
    IN  IF 2 * r < d THEN q
        ELSE IF 2 * r > d THEN q + 1
        ELSE IF (q % 2 = 0) = (tie = "even") THEN q ELSE q + 1

Ties == {"even", "odd"}

----------------------------------------------------------------------------
(* Complexity score *)

\* metrics.execution_time or 0
OrZero(opt) == IF opt = None THEN 0 ELSE opt[1]

\* The five sub-scores min(x / ceiling * 100, 100), each already multiplied by its
\* weight and written over the common denominator 200 of a score in hundredths:
\*   time   : min(ms / 100, 100)  * 30 = min(60 * ms, 600000) / 200
\*   gas    : min(gas / 5000, 100) * 25 = min(gas, 500000) / 200
\*   tx     : min(10 * tx, 100)   * 20 = min(40000 * tx, 400000) / 200
\*   calls  : min(10 * c, 100)    * 15 = min(30000 * c, 300000) / 200
\*   network: min(5 * n, 100)     * 10 = min(10000 * n, 200000) / 200
\* the weighted sum with a gas sub-score that is not clamped at 100
WeightedSum200Unclamped(m) ==
    Min(60 * OrZero(m.execution_time), 600000)
    + m.gas_used
    + Min(40000 * m.transaction_count, 400000)
    + Min(30000 * m.contract_calls, 300000)
    + Min(10000 * m.network_requests, 200000)

WeightedSum200(m) ==
    Min(60 * OrZero(m.execution_time), 600000)
    + Min(m.gas_used, 500000)
    + Min(40000 * m.transaction_count, 400000)
    + Min(30000 * m.contract_calls, 300000)
    + Min(10000 * m.network_requests, 200000)

\* MetricsCollector.calculate_complexity_score, in hundredths
calculate_complexity_score(m) == RoundHalfEven(WeightedSum200(m), 200)

\* categorize_complexity with "<=" where the code has "<"
categorize_complexity_inclusive(score) ==
    IF score <= 2000 THEN "SIMPLE"
    ELSE IF score <= 4000 THEN "MODERATE"
    ELSE IF score <= 6000 THEN "COMPLEX"
    ELSE IF score <= 8000 THEN "VERY_COMPLEX"
    ELSE "EXTREME"

\* MetricsCollector.categorize_complexity, on a score in hundredths
categorize_complexity(score) ==
    IF score < 2000 THEN "SIMPLE"
    ELSE IF score < 4000 THEN "MODERATE"
    ELSE IF score < 6000 THEN "COMPLEX"
    ELSE IF score < 8000 THEN "VERY_COMPLEX"
    ELSE "EXTREME"

----------------------------------------------------------------------------
(* Dictionaries *)

\* a store that rebuilds the dictionary with the one entry
DictSetAlone(d, k, v) == [x \in {k} |-> v]

\* d[k] = v
DictSet(d, k, v) == [x \in DOMAIN d \cup {k} |-> IF x = k THEN v ELSE d[x]]

\* d without k (the dictionary d.pop(k) leaves)
DictPop(d, k) == [x \in DOMAIN d \ {k} |-> d[x]]

EmptyDict == [x \in {} |-> None]

----------------------------------------------------------------------------
(* History *)

ZeroSums == [total |-> [c \in CounterNames |-> 0], given |-> {}, count |-> 0]

\* the deltas of one accepted update, added to the history of its key
AddSums(h, d) ==
    [total |-> [c \in CounterNames |-> h.total[c] + (IF d[c] = None THEN 0 ELSE d[c][1])],
     given |-> h.given \cup {c \in CounterNames : d[c] # None},
     count |-> h.count + 1]

NoCall ==
    [op |-> "init", key |-> "", raised |-> "none",
     was_active |-> FALSE, was_done |-> FALSE, replaced |-> None]

Call(op, k, raised) ==
    [op |-> op, key |-> k, raised |-> raised,
     was_active |-> k \in DOMAIN active_tasks,
     was_done |-> k \in DOMAIN tasks,
     replaced |-> IF op = "start" /\ k \in DOMAIN active_tasks
                  THEN Some(active_tasks[k]) ELSE None]

----------------------------------------------------------------------------
(* Operations of MetricsCollector *)

InitCollector ==
    /\ active_tasks = EmptyDict
    /\ tasks = EmptyDict
    /\ now = 0
    /\ last = NoCall
    /\ sums = [k \in Keys |-> ZeroSums]
    /\ nStarts = 0
    /\ nUpdates = 0
    /\ ended = [count |-> 0, gas_used |-> 0]

\* EventLogger.log_transfer_event stands for a handler that returns; "failing" raises;
\* "one_shot" unregisters itself from the event name it is called for and returns.
Handlers == {"log_transfer_event", "failing", "one_shot"}

\* no call made on the EventLogger yet
NoECall ==
    [op |-> "init", kind |-> "", handler |-> "", event |-> None, queries |-> None,
     raised |-> "none", was_registered |-> FALSE, dispatched |-> << >>]

\* listen_to_events_async has not been called
NoListener ==
    [pc |-> "idle", task_id |-> "", event_name |-> "", duration |-> None,
     poll_interval |-> 0, start_time |-> 0, polls |-> 0, dispatched |-> << >>]

\* EventLogger.__init__
InitLogger ==
    /\ event_handlers = EmptyDict
    /\ invoked = << >>
    /\ ecall = NoECall
    /\ listener = NoListener

Init ==
    /\ InitCollector
    /\ arg = None
    /\ threads = << >>
    /\ returned = None
    /\ contract = FALSE
    /\ InitLogger

\* a call of start_task, update_task or end_task returns no summary and leaves the
\* rest alone
NoOtherEffect ==
    /\ returned' = None
    /\ UNCHANGED <<arg, threads, loggerVars>>

\* time.time() advances between calls
Tick(d) ==
    /\ now + d <= MaxTime
    /\ now' = now + d
    /\ last' = [NoCall EXCEPT !.op = "tick"]
    /\ UNCHANGED <<active_tasks, tasks, sums, nStarts, nUpdates, ended>>
    /\ NoOtherEffect

\* start_task as dict.setdefault would write it: an active record is kept
start_task_keep(active, task_id, task_name, metadata, t) ==
    IF task_id \in DOMAIN active THEN active
    ELSE DictSet(active, task_id, TaskMetrics(task_id, task_name, metadata, t))

\* MetricsCollector.start_task: the active mapping after the call
start_task(active, task_id, task_name, metadata, t) ==
    DictSet(active, task_id, TaskMetrics(task_id, task_name, metadata, t))

\* MetricsCollector.start_task
StartTask(k, name, md) ==
    /\ nStarts < MaxStarts
    /\ active_tasks' = start_task(active_tasks, k, name, md, now)
    /\ last' = Call("start", k, "none")
    /\ sums' = [sums EXCEPT ![k] = ZeroSums]
    /\ nStarts' = nStarts + 1
    /\ UNCHANGED <<tasks, now, nUpdates, ended>>
    /\ NoOtherEffect

\* counter += delta when the argument is not None
AddDelta(counter, delta) == IF delta = None THEN counter ELSE counter + delta[1]

SetDelta(counter, delta) == IF delta = None THEN counter ELSE delta[1]

\* update_task with "=" where the code has "+=" for gas_used
update_task_assign(m, d) ==
    [m EXCEPT !.gas_used = SetDelta(@, d.gas_used),
              !.transaction_count = AddDelta(@, d.transaction_count),
              !.contract_calls = AddDelta(@, d.contract_calls),
              !.data_size = AddDelta(@, d.data_size),
              !.network_requests = AddDelta(@, d.network_requests)]

\* MetricsCollector.update_task: the record after the five conditional additions
update_task(m, d) ==
    [m EXCEPT !.gas_used = AddDelta(@, d.gas_used),
              !.transaction_count = AddDelta(@, d.transaction_count),
              !.contract_calls = AddDelta(@, d.contract_calls),
              !.data_size = AddDelta(@, d.data_size),
              !.network_requests = AddDelta(@, d.network_requests)]

\* update_task looking the key up in the completed tasks when it is not active
UpdateTaskFallback(k, d) ==
    IF k \notin DOMAIN active_tasks /\ k \notin DOMAIN tasks
    THEN /\ last' = Call("update", k, "KeyError")
         /\ UNCHANGED <<active_tasks, tasks, now, sums, nStarts, nUpdates, ended>>
         /\ NoOtherEffect
    ELSE /\ nUpdates < MaxUpdates
         /\ IF k \in DOMAIN active_tasks
            THEN /\ active_tasks' = DictSet(active_tasks, k, update_task(active_tasks[k], d))
                 /\ sums' = [sums EXCEPT ![k] = AddSums(@, d)]
                 /\ UNCHANGED tasks
            ELSE /\ tasks' = DictSet(tasks, k, update_task(tasks[k], d))
                 /\ UNCHANGED <<active_tasks, sums>>
         /\ last' = Call("update", k, "none")
         /\ nUpdates' = nUpdates + 1
         /\ UNCHANGED <<now, nStarts, ended>>
         /\ NoOtherEffect

\* MetricsCollector.update_task
UpdateTask(k, d) ==
    IF k \notin DOMAIN active_tasks
    THEN /\ last' = Call("update", k, "KeyError")
         /\ UNCHANGED <<active_tasks, tasks, now, sums, nStarts, nUpdates, ended>>
         /\ NoOtherEffect
    ELSE /\ nUpdates < MaxUpdates
         /\ active_tasks' = DictSet(active_tasks, k, update_task(active_tasks[k], d))
         /\ last' = Call("update", k, "none")
         /\ sums' = [sums EXCEPT ![k] = AddSums(@, d)]
         /\ nUpdates' = nUpdates + 1
         /\ UNCHANGED <<tasks, now, nStarts, ended>>
         /\ NoOtherEffect

\* end_task that finalizes a record with the counters of a new TaskMetrics
end_task_fresh(m, t) ==
    LET c == complete(TaskMetrics(m.task_id, m.task_name, m.metadata, m.start_time), t)
        score == calculate_complexity_score(c)
    IN  [c EXCEPT !.complexity_score = Some(score),
                  !.complexity_level = Some(categorize_complexity(score))]

\* end_task that leaves complexity_level unset
end_task_no_level(m, t) ==
    LET c == complete(m, t)
    IN  [c EXCEPT !.complexity_score = Some(calculate_complexity_score(c))]

\* end_task that categorizes the score of the record before complete()
end_task_stale_level(m, t) ==
    LET c == complete(m, t)
    IN  [c EXCEPT !.complexity_score = Some(calculate_complexity_score(c)),
                  !.complexity_level =
                      Some(categorize_complexity(calculate_complexity_score(m)))]

\* MetricsCollector.end_task, after the pop: complete(), then score, then level
end_task(m, t) ==
    LET c == complete(m, t)
        score == calculate_complexity_score(c)
    IN  [c EXCEPT !.complexity_score = Some(score),
                  !.complexity_level = Some(categorize_complexity(score))]

\* end_task finishing a completed task again when the key is not active
EndTaskAgain(k) ==
    IF k \notin DOMAIN active_tasks /\ k \notin DOMAIN tasks
    THEN /\ last' = Call("end", k, "KeyError")
         /\ UNCHANGED <<active_tasks, tasks, now, sums, nStarts, nUpdates, ended>>
         /\ NoOtherEffect
    ELSE /\ active_tasks' = DictPop(active_tasks, k)
         /\ tasks' = DictSet(tasks, k,
                end_task(IF k \in DOMAIN active_tasks THEN active_tasks[k] ELSE tasks[k], now))
         /\ last' = Call("end", k, "none")
         /\ ended' = [count |-> ended.count + 1,
                      gas_used |-> ended.gas_used + tasks'[k].gas_used]
         /\ UNCHANGED <<now, sums, nStarts, nUpdates>>
         /\ NoOtherEffect

\* MetricsCollector.end_task
EndTask(k) ==
    IF k \notin DOMAIN active_tasks
    THEN /\ last' = Call("end", k, "KeyError")
         /\ UNCHANGED <<active_tasks, tasks, now, sums, nStarts, nUpdates, ended>>
         /\ NoOtherEffect
    ELSE /\ active_tasks' = DictPop(active_tasks, k)
         /\ tasks' = DictSet(tasks, k, end_task(active_tasks[k], now))
         /\ last' = Call("end", k, "none")
         /\ ended' = [count |-> ended.count + 1,
                      gas_used |-> ended.gas_used + tasks'[k].gas_used]
         /\ UNCHANGED <<now, sums, nStarts, nUpdates>>
         /\ NoOtherEffect

Next ==
    \/ \E d \in TimeSteps : Tick(d)
    \/ \E k \in Keys, name \in Names, md \in Metadatas : StartTask(k, name, md)
    \/ \E k \in Keys, d \in Deltas : UpdateTask(k, d)
    \/ \E k \in Keys : EndTask(k)

Spec == Init /\ [][Next]_vars

----------------------------------------------------------------------------
(* get_summary *)

\* sum(f(m) for m in d.values()), for a dictionary d of integers
RECURSIVE SumValues(_)
SumValues(d) ==
    IF DOMAIN d = {} THEN 0
    ELSE LET k == CHOOSE x \in DOMAIN d : TRUE
         IN  d[k] + SumValues(DictPop(d, k))

\* the summary of no completed task
EmptySummary ==
    [total_tasks |-> 0,
     avg_complexity_score |-> 0,
     avg_execution_time |-> 0,
     total_gas_used |-> 0,
     complexity_distribution |-> EmptyDict]

\* get_summary counting only the levels some task has
get_summary_sparse(completed, score_tie, time_tie) ==
    IF DOMAIN completed = {} THEN EmptySummary
    ELSE LET n == Cardinality(DOMAIN completed)
             total_score ==
                 SumValues([k \in DOMAIN completed |-> OrZero(completed[k].complexity_score)])
             total_time ==
                 SumValues([k \in DOMAIN completed |-> OrZero(completed[k].execution_time)])
             total_gas == SumValues([k \in DOMAIN completed |-> completed[k].gas_used])
             seen == {l \in ComplexityLevel :
                        \E k \in DOMAIN completed : completed[k].complexity_level = Some(l)}
         IN  [total_tasks |-> n,
              avg_complexity_score |-> RoundTie(total_score, n, score_tie),
              avg_execution_time |-> RoundTie(total_time, n, time_tie),
              total_gas_used |-> total_gas,
              complexity_distribution |->
                  [l \in seen |->
                      Cardinality({k \in DOMAIN completed :
                                      completed[k].complexity_level = Some(l)})]]

\* MetricsCollector.get_summary of the completed tasks: the score average in
\* hundredths (round(.., 2)), the time average in milliseconds (round(.., 3))
get_summary(completed, score_tie, time_tie) ==
    IF DOMAIN completed = {} THEN EmptySummary
    ELSE LET n == Cardinality(DOMAIN completed)
             total_score ==
                 SumValues([k \in DOMAIN completed |-> OrZero(completed[k].complexity_score)])
             total_time ==
                 SumValues([k \in DOMAIN completed |-> OrZero(completed[k].execution_time)])
             total_gas == SumValues([k \in DOMAIN completed |-> completed[k].gas_used])
         IN  [total_tasks |-> n,
              avg_complexity_score |-> RoundTie(total_score, n, score_tie),
              avg_execution_time |-> RoundTie(total_time, n, time_tie),
              total_gas_used |-> total_gas,
              complexity_distribution |->
                  [l \in ComplexityLevel |->
                      Cardinality({k \in DOMAIN completed :
                                      completed[k].complexity_level = Some(l)})]]

\* get_summary reading the active tasks as well as the completed ones
GetSummaryOfAll ==
    /\ \E score_tie \in Ties, time_tie \in Ties :
          returned' =
             Some(get_summary([k \in DOMAIN tasks \cup DOMAIN active_tasks |->
                                 IF k \in DOMAIN tasks THEN tasks[k] ELSE active_tasks[k]],
                              score_tie, time_tie))
    /\ last' = Call("summary", "", "none")
    /\ UNCHANGED <<active_tasks, tasks, now, sums, nStarts, nUpdates, ended, arg, threads, loggerVars>>

\* MetricsCollector.get_summary
GetSummary ==
    /\ \E score_tie \in Ties, time_tie \in Ties :
          returned' = Some(get_summary(tasks, score_tie, time_tie))
    /\ last' = Call("summary", "", "none")
    /\ UNCHANGED <<active_tasks, tasks, now, sums, nStarts, nUpdates, ended, arg, threads, loggerVars>>

NextSummary ==
    \/ Next
    \/ GetSummary

SpecSummary == Init /\ [][NextSummary]_vars

----------------------------------------------------------------------------
(* get_summary called on its own, on collectors with up to MaxCompleted completed
   tasks *)

MaxCompleted == 3

MeanKeys == {"tx_00" \o ToString(i) : i \in 1 .. MaxCompleted}

\* what a task used before it was ended: gas, network requests and milliseconds
MeanInputs ==
    [gas_used : {0, 21000, 121000}, network_requests : {0, 1}, ms : {0, 5000}]

\* the record end_task stored for such a task, with its score and level
MeanRecord(k, in) ==
    end_task([TaskMetrics(k, "Test Task", "{}", 0) EXCEPT
                 !.gas_used = in.gas_used, !.network_requests = in.network_requests],
             in.ms)

InitMean ==
    /\ InitCollector
    /\ \E S \in SUBSET MeanKeys :
          \E f \in [S -> MeanInputs] : arg = Some([k \in S |-> MeanRecord(k, f[k])])
    /\ threads = << >>
    /\ returned = None
    /\ contract = FALSE
    /\ InitLogger

Summarize ==
    /\ returned = None
    /\ \E score_tie \in Ties, time_tie \in Ties :
          returned' = Some(get_summary(arg[1], score_tie, time_tie))
    /\ UNCHANGED <<collectorVars, arg, threads, loggerVars>>

SpecMean == InitMean /\ [][Summarize]_vars

----------------------------------------------------------------------------
(* categorize_complexity called on its own, on every score 0.00 .. 100.00 *)

Scores == 0 .. 10000

InitClassify ==
    /\ InitCollector
    /\ arg \in {Some(score) : score \in Scores}
    /\ threads = << >>
    /\ returned = None
    /\ contract = FALSE
    /\ InitLogger

Classify ==
    /\ returned = None
    /\ returned' = Some(categorize_complexity(arg[1]))
    /\ UNCHANGED <<collectorVars, arg, threads, loggerVars>>

SpecClassify == InitClassify /\ [][Classify]_vars

----------------------------------------------------------------------------
(* calculate_complexity_score called on its own, on records at, below and above
   the ceilings of the five sub-scores *)

ScoreTimes == {0, 9999, 10000, 10001, 20000}
ScoreGas == {0, 250000, 500000, 500001, 1000000}
ScoreTransactions == {0, 10, 11}
ScoreCalls == {0, 10, 12}
ScoreRequests == {0, 20, 25}

\* a completed record with the given execution time and counters
ScoredRecord(ms, gas, tx, calls, net) ==
    [complete(TaskMetrics("tx_001", "Test Task", "{}", 0), ms) EXCEPT
        !.gas_used = gas, !.transaction_count = tx, !.contract_calls = calls,
        !.network_requests = net]

InitScore ==
    /\ InitCollector
    /\ arg \in {Some(ScoredRecord(ms, gas, tx, calls, net)) :
                   ms \in ScoreTimes, gas \in ScoreGas, tx \in ScoreTransactions,
                   calls \in ScoreCalls, net \in ScoreRequests}
    /\ threads = << >>
    /\ returned = None
    /\ contract = FALSE
    /\ InitLogger

Score ==
    /\ returned = None
    /\ returned' = Some(calculate_complexity_score(arg[1]))
    /\ UNCHANGED <<collectorVars, arg, threads, loggerVars>>

SpecScore == InitScore /\ [][Score]_vars

----------------------------------------------------------------------------
(* EventLogger: the handler registry and _process_event *)

MaxHandlers == 3

EventNames == {"Transfer", "Approval"}

\* events as the external source reports them: two logs of one transaction and one
\* log of another
Events ==
    { [transactionHash |-> "0xaa", logIndex |-> 0],
      [transactionHash |-> "0xaa", logIndex |-> 1],
      [transactionHash |-> "0xbb", logIndex |-> 0] }

\* the number of registrations in the whole registry
RECURSIVE TotalRegistered(_)
TotalRegistered(reg) ==
    IF DOMAIN reg = {} THEN 0
    ELSE LET k == CHOOSE x \in DOMAIN reg : TRUE
         IN  Len(reg[k]) + TotalRegistered(DictPop(reg, k))

Contains(list, h) == \E i \in 1 .. Len(list) : list[i] = h

\* a removal that takes the last occurrence of h
RemoveLast(list, h) ==
    LET i == CHOOSE x \in 1 .. Len(list) :
                 list[x] = h /\ \A y \in x + 1 .. Len(list) : list[y] # h
    IN  SubSeq(list, 1, i - 1) \o SubSeq(list, i + 1, Len(list))

\* list.remove(h) where h is in the list: the first occurrence goes
RemoveFirst(list, h) ==
    LET i == CHOOSE x \in 1 .. Len(list) :
                 list[x] = h /\ \A y \in 1 .. x - 1 : list[y] # h
    IN  SubSeq(list, 1, i - 1) \o SubSeq(list, i + 1, Len(list))

\* EventLogger.register_handler: the registry after the call
register_handler(reg, event_name, handler) ==
    LET with_list == IF event_name \notin DOMAIN reg
                     THEN DictSet(reg, event_name, << >>) ELSE reg
    IN  DictSet(with_list, event_name, Append(with_list[event_name], handler))

\* unregister_handler that makes the list of an event name it does not know
unregister_handler_setdefault(reg, event_name, handler) ==
    IF event_name \notin DOMAIN reg THEN DictSet(reg, event_name, << >>)
    ELSE IF Contains(reg[event_name], handler)
         THEN DictSet(reg, event_name, RemoveFirst(reg[event_name], handler))
         ELSE reg

\* EventLogger.unregister_handler: the registry after the call (a handler that is
\* not found is a ValueError that is caught and logged)
unregister_handler(reg, event_name, handler) ==
    IF event_name \in DOMAIN reg /\ Contains(reg[event_name], handler)
    THEN DictSet(reg, event_name, RemoveFirst(reg[event_name], handler))
    ELSE reg

\* what running handler(event) does to the registry, and whether it raises
RunHandler(reg, handler, event_name) ==
    [event_handlers |-> IF handler = "one_shot"
                        THEN unregister_handler(reg, event_name, handler) ELSE reg,
     raised |-> handler = "failing"]

\* the loop of _process_event from list index i on: the for statement reads the
\* list by index, and the list is the one the handlers may change meanwhile
RECURSIVE ForHandlers(_, _, _, _, _)
ForHandlers(reg, event, event_name, i, log) ==
    IF i > Len(reg[event_name]) THEN [event_handlers |-> reg, invoked |-> log]
    ELSE LET handler == reg[event_name][i]
             ran == RunHandler(reg, handler, event_name)
         IN  ForHandlers(ran.event_handlers, event, event_name, i + 1,
                         Append(log, [handler |-> handler, event |-> event,
                                      event_name |-> event_name, raised |-> ran.raised]))

\* EventLogger._process_event: the registry and the invocations after the call,
\* the invocations added to log
process_event(reg, event, event_name, log) ==
    IF event_name \in DOMAIN reg
    THEN ForHandlers(reg, event, event_name, 1, log)
    ELSE [event_handlers |-> reg, invoked |-> log]

ECall(op, event_name, handler, event, raised) ==
    [op |-> op, kind |-> event_name, handler |-> handler, event |-> event,
     queries |-> None, raised |-> raised,
     was_registered |->
        event_name \in DOMAIN event_handlers /\ Contains(event_handlers[event_name], handler),
     dispatched |-> IF event = None THEN << >>
                    ELSE <<[event |-> event[1], event_name |-> event_name]>>]

\* EventLogger.register_handler
Register(event_name, handler) ==
    /\ TotalRegistered(event_handlers) < MaxHandlers
    /\ event_handlers' = register_handler(event_handlers, event_name, handler)
    /\ invoked' = << >>
    /\ ecall' = ECall("register", event_name, handler, None, "none")
    /\ returned' = None
    /\ UNCHANGED <<collectorVars, arg, threads, contract, listener>>

\* EventLogger.unregister_handler
Unregister(event_name, handler) ==
    /\ event_handlers' = unregister_handler(event_handlers, event_name, handler)
    /\ invoked' = << >>
    /\ ecall' = ECall("unregister", event_name, handler, None, "none")
    /\ returned' = None
    /\ UNCHANGED <<collectorVars, arg, threads, contract, listener>>

\* EventLogger._process_event: every exception of a handler is caught
Dispatch(event, event_name) ==
    LET done == process_event(event_handlers, event, event_name, << >>)
    IN  /\ event_handlers' = done.event_handlers
        /\ invoked' = done.invoked
        /\ ecall' = ECall("dispatch", event_name, "", Some(event), "none")
        /\ returned' = None
        /\ UNCHANGED <<collectorVars, arg, threads, contract, listener>>

NextEvents ==
    \/ \E n \in EventNames, h \in Handlers : Register(n, h)
    \/ \E n \in EventNames, h \in Handlers : Unregister(n, h)
    \/ \E e \in Events, n \in EventNames : Dispatch(e, n)

SpecEvents == Init /\ [][NextEvents]_vars

----------------------------------------------------------------------------
(* EventLogger.watch_address_transfers *)

MaxEvents == 3
MaxWatchHandlers == 2

\* an address, as its first ten characters and the rest: address[:10] is the first
Addresses == {[first10 |-> "0x742d35Cc", rest |-> "6634C0532925a3b844Bc9e7595f0bEb0"]}

AddressStr(address) == address.first10 \o address.rest

\* f"watch_transfers_{address[:10]}"
WatchTaskId(address) == "watch_transfers_" \o address.first10

\* the metadata of the watch task, from_block and to_block at their defaults
WatchMetadata(address) ==
    "{'address': '" \o AddressStr(address) \o "', 'from_block': 0, 'to_block': 'latest'}"

\* the sequences over S of length at most n
SeqsUpTo(S, n) == UNION {[1 .. k -> S] : k \in 0 .. n}

\* what a query of the external source does: it raises, or it returns its entries
Raises == [raises |-> TRUE, events |-> << >>]
Returns(es) == [raises |-> FALSE, events |-> es]

\* the outcomes of the query by sender and of the query by recipient: the first
\* raises (the second is never issued), or the second raises, or both return, at
\* most MaxEvents entries together
QueryOutcomes ==
    {<<Raises, Raises>>}
    \cup {<<Returns(f), Raises>> : f \in SeqsUpTo(Events, MaxEvents)}
    \cup UNION {{<<Returns(f), Returns(t)>> : t \in SeqsUpTo(Events, MaxEvents - Len(f))} :
                    f \in SeqsUpTo(Events, MaxEvents)}

\* the keys of a dict in insertion order and its values, after d[key] = event for
\* the events from index i on: a key that is there keeps its place, its value goes
RECURSIVE DictOfEvents(_, _, _, _)
DictOfEvents(events, i, keys, vals) ==
    IF i > Len(events) THEN [keys |-> keys, vals |-> vals]
    ELSE LET key == events[i].transactionHash
         IN  DictOfEvents(events, i + 1,
                          IF key \in DOMAIN vals THEN keys ELSE Append(keys, key),
                          DictSet(vals, key, events[i]))

\* the elements of events at the indices idx, in the order of events
ElementsAt(events, idx) ==
    [k \in 1 .. Cardinality(idx) |->
        events[CHOOSE i \in idx : Cardinality({j \in idx : j < i}) = k - 1]]

\* deduplication that drops an event only when the same event came before
deduplicate_by_event(events) ==
    ElementsAt(events, {i \in 1 .. Len(events) : \A j \in 1 .. i - 1 : events[j] # events[i]})

\* list({event['transactionHash']: event for event in events}.values())
deduplicate(events) ==
    LET d == DictOfEvents(events, 1, << >>, EmptyDict)
    IN  [i \in 1 .. Len(d.keys) |-> d.vals[d.keys[i]]]

\* repr of an event that is a plain dict
EventRepr(e) ==
    "{'transactionHash': '" \o e.transactionHash \o "', 'logIndex': "
        \o ToString(e.logIndex) \o "}"

RECURSIVE JoinReprs(_, _)
JoinReprs(events, i) ==
    IF i > Len(events) THEN ""
    ELSE (IF i > 1 THEN ", " ELSE "") \o EventRepr(events[i]) \o JoinReprs(events, i + 1)

\* str(all_events)
ListRepr(events) == "[" \o JoinReprs(events, 1) \o "]"

\* for event in events: self._process_event(event, event_name), from index i on:
\* the registry, the handler invocations and the calls of _process_event after it
RECURSIVE ProcessAll(_, _, _, _, _, _)
ProcessAll(reg, events, event_name, i, log, calls) ==
    IF i > Len(events)
    THEN [event_handlers |-> reg, invoked |-> log, dispatched |-> calls]
    ELSE LET done == process_event(reg, events[i], event_name, log)
         IN  ProcessAll(done.event_handlers, events, event_name, i + 1, done.invoked,
                        Append(calls, [event |-> events[i], event_name |-> event_name]))

\* the queries of watch_address_transfers that reach the external source: none
\* without a contract, one when the query by sender raises, else two
queries_issued(has_contract, fq) == IF ~has_contract THEN 0 ELSE IF fq.raises THEN 1 ELSE 2

\* watch_address_transfers that records one network request per event found
watch_dispatched_per_event(found, from_events, to_events, all_events, done) ==
    [found EXCEPT !.issued = 2, !.from_events = from_events, !.to_events = to_events,
                  !.event_handlers = done.event_handlers, !.invoked = done.invoked,
                  !.dispatched = done.dispatched,
                  !.delta = Some(Delta(None, None, None,
                                       Some(Len(ListRepr(all_events))),
                                       Some(Len(all_events)))),
                  !.result = Some(all_events)]

\* watch_address_transfers from the deduplication on: the dispatches, the update
\* of the task and the list returned
watch_dispatched(found, from_events, to_events, all_events, done) ==
    [found EXCEPT !.issued = 2, !.from_events = from_events, !.to_events = to_events,
                  !.event_handlers = done.event_handlers, !.invoked = done.invoked,
                  !.dispatched = done.dispatched,
                  !.delta = Some(Delta(None, None, None,
                                       Some(Len(ListRepr(all_events))), Some(2))),
                  !.result = Some(all_events)]

\* watch_address_transfers dispatching what the queries returned, duplicates too
watch_found_all(nothing, reg, from_events, to_events, all_events) ==
    watch_dispatched(nothing, from_events, to_events, all_events,
                     ProcessAll(reg, from_events \o to_events, "Transfer", 1, << >>, << >>))

watch_found(nothing, reg, from_events, to_events, all_events) ==
    watch_dispatched(nothing, from_events, to_events, all_events,
                     ProcessAll(reg, all_events, "Transfer", 1, << >>, << >>))

\* watch_address_transfers that looks for the contract only after the queries
watch_body_late_check(has_contract, reg, fq, tq) ==
    LET nothing == [raised |-> "none", issued |-> 0, from_events |-> << >>,
                    to_events |-> << >>, event_handlers |-> reg, invoked |-> << >>,
                    dispatched |-> << >>, delta |-> None, result |-> None]
        found == watch_found(nothing, reg, fq.events, tq.events,
                             deduplicate(fq.events \o tq.events))
    IN  IF fq.raises THEN [nothing EXCEPT !.raised = "SourceError", !.issued = 1]
        ELSE IF tq.raises
             THEN [nothing EXCEPT !.raised = "SourceError", !.issued = 2,
                                  !.from_events = fq.events]
        ELSE IF ~has_contract
             THEN [found EXCEPT !.raised = "ValueError", !.delta = None, !.result = None]
        ELSE found

\* the body of the try statement of watch_address_transfers: what it raises, the
\* queries it issued, the registry and the invocations after it, the delta it gave
\* to update_task and the list it returns
watch_body(has_contract, reg, fq, tq) ==
    LET nothing == [raised |-> "none", issued |-> 0, from_events |-> << >>,
                    to_events |-> << >>, event_handlers |-> reg, invoked |-> << >>,
                    dispatched |-> << >>, delta |-> None, result |-> None]
    IN  IF ~has_contract THEN [nothing EXCEPT !.raised = "ValueError"]
        ELSE IF fq.raises THEN [nothing EXCEPT !.raised = "SourceError", !.issued = 1]
        ELSE IF tq.raises
             THEN [nothing EXCEPT !.raised = "SourceError", !.issued = 2,
                                  !.from_events = fq.events]
        ELSE watch_found(nothing, reg, fq.events, tq.events,
                         deduplicate(fq.events \o tq.events))

\* EventLogger.watch_address_transfers: start_task, the body, and end_task in the
\* finally clause; each query that is issued takes the time step
Watch(address, fq, tq, step) ==
    /\ nStarts < MaxStarts
    /\ now + queries_issued(contract, fq) * step <= MaxTime
    /\ \E body \in {watch_body(contract, event_handlers, fq, tq)} :
          LET task_id == WatchTaskId(address)
              d == body.issued * step
              started == start_task(active_tasks, task_id, "Watch Address Transfers",
                                    WatchMetadata(address), now)
              updated == IF body.delta = None THEN started
                         ELSE DictSet(started, task_id,
                                      update_task(started[task_id], body.delta[1]))
          IN  /\ now' = now + d
              /\ active_tasks' = DictPop(updated, task_id)
              /\ tasks' = DictSet(tasks, task_id, end_task(updated[task_id], now + d))
              /\ last' = [op |-> "end", key |-> task_id, raised |-> "none",
                          was_active |-> TRUE, was_done |-> task_id \in DOMAIN tasks,
                          replaced |-> None]
              /\ sums' = [sums EXCEPT ![task_id] =
                             IF body.delta = None THEN ZeroSums
                             ELSE AddSums(ZeroSums, body.delta[1])]
              /\ nStarts' = nStarts + 1
              /\ nUpdates' = nUpdates + (IF body.delta = None THEN 0 ELSE 1)
              /\ ended' = [count |-> ended.count + 1,
                           gas_used |-> ended.gas_used + tasks'[task_id].gas_used]
              /\ event_handlers' = body.event_handlers
              /\ invoked' = body.invoked
              /\ ecall' = [op |-> "watch", kind |-> "Transfer", handler |-> "",
                           event |-> None,
                           queries |-> Some([issued |-> body.issued,
                                             failed |-> contract /\ (fq.raises \/ tq.raises),
                                             from_events |-> body.from_events,
                                             to_events |-> body.to_events]),
                           raised |-> body.raised, was_registered |-> FALSE,
                           dispatched |-> body.dispatched]
              /\ returned' = body.result
              /\ UNCHANGED <<arg, threads, contract, listener>>

\* register_handler while the registry is small
RegisterFew(event_name, handler) ==
    /\ TotalRegistered(event_handlers) < MaxWatchHandlers
    /\ Register(event_name, handler)

\* an EventLogger made with or without a contract address and ABI
InitWatch ==
    /\ InitCollector
    /\ arg = None
    /\ threads = << >>
    /\ returned = None
    /\ contract \in BOOLEAN
    /\ InitLogger

NextWatch ==
    \/ \E h \in Handlers : RegisterFew("Transfer", h)
    \/ \E a \in Addresses, q \in QueryOutcomes, step \in TimeSteps :
          Watch(a, q[1], q[2], step)

SpecWatch == InitWatch /\ [][NextWatch]_vars

----------------------------------------------------------------------------
(* validate_address around EventLogger.watch_address_transfers *)

\* the address of Addresses in lower case, and two strings that are no address
LowerAddress == [first10 |-> "0x742d35cc", rest |-> "6634c0532925a3b844bc9e7595f0beb0"]
NotAnAddress == [first10 |-> "invalid_ad", rest |-> "dress"]
ShortHex == [first10 |-> "0x123", rest |-> ""]

CallAddresses == Addresses \cup {LowerAddress, NotAnAddress, ShortHex}

\* Web3.is_address(addr): 40 hexadecimal digits after 0x, all of one case or with
\* the case of the checksum
is_address(addr) == addr \in Addresses \cup {LowerAddress}

\* Web3.to_checksum_address(addr)
to_checksum_address(addr) ==
    IF addr = LowerAddress THEN CHOOSE a \in Addresses : TRUE ELSE addr

\* addr.startswith('0x')
startswith_0x(addr) == addr \in Addresses \cup {LowerAddress, ShortHex}

\* the positional arguments of a call: the object a method is called on, or a string
SelfArg == [type |-> "object", value |-> None]
StrArg(addr) == [type |-> "str", value |-> Some(addr)]

address_params == {"address", "wallet_address", "to_address", "from_address", "recipient"}

\* validate_address.wrapper up to the call of func: what it raises, and the
\* arguments it gives to func. An address among the keyword arguments is checked
\* and replaced by its checksum form; the first positional argument is checked
\* when it is a string that starts with 0x
validate_address(args, kwargs) ==
    LET named == address_params \cap DOMAIN kwargs
    IN  IF \E param \in named : ~is_address(kwargs[param])
        THEN [raised |-> "ValidationError", args |-> args, kwargs |-> kwargs]
        ELSE LET checked == [param \in DOMAIN kwargs |->
                                IF param \in named THEN to_checksum_address(kwargs[param])
                                ELSE kwargs[param]]
             IN  IF args # << >> /\ args[1].type = "str" /\ startswith_0x(args[1].value[1])
                 THEN IF ~is_address(args[1].value[1])
                      THEN [raised |-> "ValidationError", args |-> args, kwargs |-> checked]
                      ELSE [raised |-> "none",
                            args |-> [args EXCEPT ![1] =
                                         StrArg(to_checksum_address(args[1].value[1]))],
                            kwargs |-> checked]
                 ELSE [raised |-> "none", args |-> args, kwargs |-> checked]

\* logger.watch_address_transfers(address=a) and logger.watch_address_transfers(a)
WatchArguments(call) ==
    IF call.by = "keyword"
    THEN [args |-> <<SelfArg>>, kwargs |-> [param \in {"address"} |-> call.address]]
    ELSE [args |-> <<SelfArg, StrArg(call.address)>>, kwargs |-> EmptyDict]

\* the parameter address of watch_address_transfers, bound from what the wrapper gave
BoundAddress(given) ==
    IF "address" \in DOMAIN given.kwargs THEN given.kwargs["address"]
    ELSE given.args[2].value[1]

\* a logger with or without a contract, and the call that is going to be made on it
InitValidate ==
    /\ InitCollector
    /\ arg \in {Some([address |-> a, by |-> b]) :
                   a \in CallAddresses, b \in {"keyword", "positional"}}
    /\ threads = << >>
    /\ returned = None
    /\ contract \in BOOLEAN
    /\ InitLogger

\* the wrapper rejects the call: nothing of watch_address_transfers runs
WatchRejected ==
    /\ ecall' = [op |-> "watch", kind |-> "Transfer", handler |-> "", event |-> None,
                 queries |-> Some([issued |-> 0, failed |-> FALSE,
                                   from_events |-> << >>, to_events |-> << >>]),
                 raised |-> "ValidationError", was_registered |-> FALSE,
                 dispatched |-> << >>]
    /\ invoked' = << >>
    /\ returned' = None
    /\ UNCHANGED <<collectorVars, arg, threads, contract, event_handlers, listener>>

\* the decorated watch_address_transfers, called with the arguments of arg
ValidatedWatch(fq, tq, step) ==
    LET call == WatchArguments(arg[1])
        given == validate_address(call.args, call.kwargs)
    IN  IF given.raised # "none" THEN WatchRejected
        ELSE Watch(BoundAddress(given), fq, tq, step)

NextValidate ==
    \E q \in QueryOutcomes, step \in TimeSteps : ValidatedWatch(q[1], q[2], step)

SpecValidate == InitValidate /\ [][NextValidate]_vars

----------------------------------------------------------------------------
(* measure_complexity: the wrapper around a function *)

MaxDepth == 3
MaxInvocations == 4

\* the task_name given to the decorator
MeasuredName == "Fibonacci"

\* f"{task_name}_{int(time.time() * 1000)}"
MeasureTaskId(t) == MeasuredName \o "_" \o ToString(t)

\* how func ends when no invocation it made raised: it returns its result, or
\* it raises an exception of its own
FuncOutcomes == {"result", "ValueError"}

\* an invocation of wrapper: its locals, whether the record it started is still the
\* one under its key, and the exceptions that invocations made by func raised
Frame(task_id, metrics) ==
    [task_id |-> task_id, metrics |-> metrics, replaced |-> FALSE, inner_raised |-> {}]

InitMeasure ==
    /\ InitCollector
    /\ arg = None
    /\ returned = None
    /\ contract = FALSE
    /\ InitLogger
    /\ threads = << >>

\* wrapper up to the call of func: task_id from the clock, then start_task. The
\* caller is the program, or func of the innermost invocation
Invoke ==
    LET task_id == MeasureTaskId(now)
        metrics == TaskMetrics(task_id, MeasuredName, "{}", now)
    IN  /\ Len(threads) < MaxDepth
        /\ nStarts < MaxInvocations
        /\ active_tasks' = start_task(active_tasks, task_id, MeasuredName, "{}", now)
        /\ threads' = Append([i \in 1 .. Len(threads) |->
                                 IF threads[i].task_id = task_id
                                 THEN [threads[i] EXCEPT !.replaced = TRUE]
                                 ELSE threads[i]],
                             Frame(task_id, metrics))
        /\ last' = Call("start", task_id, "none")
        /\ nStarts' = nStarts + 1
        /\ returned' = None
        /\ UNCHANGED <<tasks, now, sums, nUpdates, ended, arg, loggerVars>>

\* what the finally block of wrapper raises: end_task raises KeyError for a key
\* that is not active; the prints read the fields of the record that start_task
\* returned, which end_task filled in only if it popped that very record
finally_raises(active, frame) ==
    IF frame.task_id \notin DOMAIN active THEN "KeyError"
    ELSE IF frame.replaced THEN "AttributeError"
    ELSE "none"

\* func of the innermost invocation ends with outcome, and the finally block of
\* wrapper runs: end_task, then the prints. An exception of the finally block
\* replaces the result or the exception of func
Leave(outcome) ==
    /\ threads # << >>
    /\ LET frame == threads[Len(threads)]
           task_id == frame.task_id
           raised == finally_raises(active_tasks, frame)
           ends == IF raised = "none" THEN outcome ELSE raised
           rest == SubSeq(threads, 1, Len(threads) - 1)
       IN  /\ outcome \in FuncOutcomes \cup frame.inner_raised
           /\ IF task_id \in DOMAIN active_tasks
              THEN /\ active_tasks' = DictPop(active_tasks, task_id)
                   /\ tasks' = DictSet(tasks, task_id, end_task(active_tasks[task_id], now))
                   /\ last' = Call("end", task_id, "none")
                   /\ ended' = [count |-> ended.count + 1,
                                gas_used |-> ended.gas_used + tasks'[task_id].gas_used]
              ELSE /\ last' = Call("end", task_id, "KeyError")
                   /\ UNCHANGED <<active_tasks, tasks, ended>>
           /\ threads' = IF rest = << >> \/ ends = "result" THEN rest
                         ELSE [rest EXCEPT ![Len(rest)].inner_raised = @ \cup {ends}]
           /\ returned' = Some([task_id |-> task_id, depth |-> Len(threads),
                                func |-> outcome, wrapper |-> ends])
    /\ UNCHANGED <<now, sums, nStarts, nUpdates, arg, loggerVars>>

NextMeasure ==
    \/ Invoke
    \/ \E outcome \in FuncOutcomes \cup {"KeyError", "AttributeError"} : Leave(outcome)
    \/ \E d \in TimeSteps : Tick(d)

SpecMeasure == InitMeasure /\ [][NextMeasure]_vars

----------------------------------------------------------------------------
(* EventLogger.get_past_events and EventLogger.listen_to_events_async *)

MaxPolled == 2

\* duration: None, or seconds (here in milliseconds)
Durations == {None, Some(0), Some(3000)}

\* what get_all_entries or get_new_entries does: it raises, or it returns entries
PollOutcomes(budget) ==
    {Raises} \cup {Returns(es) : es \in SeqsUpTo(Events, budget)}

\* the time of the event loop, asyncio.get_event_loop().time(), is the time of now
\* f"get_past_{event_name}_{int(loop.time() * 1000)}"
GetPastTaskId(event_name, t) == "get_past_" \o event_name \o "_" \o ToString(t)

\* f"listen_{event_name}_{int(loop.time())}"
ListenTaskId(event_name, t) == "listen_" \o event_name \o "_" \o ToString(t \div 1000)

\* end_task that leaves the task in the active mapping
EndedStillActive(active, done, task_id, t) ==
    [active_tasks |-> active,
     tasks |-> DictSet(done, task_id, end_task(active[task_id], t))]

\* the two mappings after end_task(task_id) at time t, task_id being active
Ended(active, done, task_id, t) ==
    [active_tasks |-> DictPop(active, task_id),
     tasks |-> DictSet(done, task_id, end_task(active[task_id], t))]

\* a call of an EventLogger method that reads the external source: the queries it
\* issued, whether the source failed in one, what the source returned
SourceCall(op, event_name, raised, failed, issued, events, calls) ==
    [op |-> op, kind |-> event_name, handler |-> "", event |-> None,
     queries |-> Some([issued |-> issued, failed |-> failed, from_events |-> events,
                       to_events |-> << >>]),
     raised |-> raised, was_registered |-> FALSE, dispatched |-> calls]

\* the call of end_task that the finally clause makes
EndCall(task_id) ==
    [op |-> "end", key |-> task_id, raised |-> "none", was_active |-> TRUE,
     was_done |-> task_id \in DOMAIN tasks, replaced |-> None]

\* update_task(task_id, network_requests=1, data_size=len(str(events)))
PolledDelta(events) == Delta(None, None, None, Some(Len(ListRepr(events))), Some(1))

\* get_past_events that deduplicates as watch_address_transfers does
get_past_body_dedup(reg, event_name, outcome) ==
    IF outcome.raises
    THEN [raised |-> "SourceError", event_handlers |-> reg, invoked |-> << >>,
          dispatched |-> << >>, delta |-> None, result |-> None]
    ELSE LET events == deduplicate(outcome.events)
             done == ProcessAll(reg, events, event_name, 1, << >>, << >>)
         IN  [raised |-> "none", event_handlers |-> done.event_handlers,
              invoked |-> done.invoked, dispatched |-> done.dispatched,
              delta |-> Some(PolledDelta(events)), result |-> Some(events)]

\* the try statement of get_past_events: the events are dispatched as they came
get_past_body(reg, event_name, outcome) ==
    IF outcome.raises
    THEN [raised |-> "SourceError", event_handlers |-> reg, invoked |-> << >>,
          dispatched |-> << >>, delta |-> None, result |-> None]
    ELSE LET done == ProcessAll(reg, outcome.events, event_name, 1, << >>, << >>)
         IN  [raised |-> "none", event_handlers |-> done.event_handlers,
              invoked |-> done.invoked, dispatched |-> done.dispatched,
              delta |-> Some(PolledDelta(outcome.events)),
              result |-> Some(outcome.events)]

\* EventLogger.get_past_events; the query takes the time step
GetPast(event_name, outcome, step) ==
    IF ~contract
    THEN /\ ecall' = SourceCall("get_past", event_name, "ValueError", FALSE, 0, << >>, << >>)
         /\ invoked' = << >>
         /\ returned' = None
         /\ UNCHANGED <<collectorVars, arg, threads, contract, event_handlers, listener>>
    ELSE /\ nStarts < MaxStarts
         /\ now + step <= MaxTime
         /\ \E body \in {get_past_body(event_handlers, event_name, outcome)} :
               LET task_id == GetPastTaskId(event_name, now)
                   started == start_task(active_tasks, task_id,
                                         "Get Past " \o event_name \o " Events",
                                         "{'event_name': '" \o event_name
                                            \o "', 'from_block': 0, 'to_block': 'latest'}",
                                         now)
                   updated == IF body.delta = None THEN started
                              ELSE DictSet(started, task_id,
                                           update_task(started[task_id], body.delta[1]))
                   after == Ended(updated, tasks, task_id, now + step)
               IN  /\ now' = now + step
                   /\ active_tasks' = after.active_tasks
                   /\ tasks' = after.tasks
                   /\ last' = EndCall(task_id)
                   /\ nStarts' = nStarts + 1
                   /\ nUpdates' = nUpdates + (IF body.delta = None THEN 0 ELSE 1)
                   /\ ended' = [count |-> ended.count + 1,
                                gas_used |-> ended.gas_used + after.tasks[task_id].gas_used]
                   /\ event_handlers' = body.event_handlers
                   /\ invoked' = body.invoked
                   /\ ecall' = SourceCall("get_past", event_name, body.raised, outcome.raises, 1,
                                          outcome.events, body.dispatched)
                   /\ returned' = body.result
                   /\ UNCHANGED <<sums, arg, threads, contract, listener>>

\* listen_to_events_async up to the while statement: the contract check, start_task
\* and create_filter
ListenStart(event_name, duration, poll_interval, filter_raises) ==
    /\ listener.pc = "idle"
    /\ invoked' = << >>
    /\ returned' = None
    /\ IF ~contract
       THEN /\ listener' = [NoListener EXCEPT !.pc = "raised", !.event_name = event_name]
            /\ ecall' = SourceCall("listen", event_name, "ValueError", FALSE, 0, << >>, << >>)
            /\ UNCHANGED <<collectorVars, arg, threads, contract, event_handlers>>
       ELSE LET task_id == ListenTaskId(event_name, now)
                started == start_task(active_tasks, task_id,
                                      "Listen to " \o event_name \o " Events",
                                      "{'event_name': '" \o event_name
                                         \o "', 'from_block': 0}", now)
                after == Ended(started, tasks, task_id, now)
                here == [pc |-> "check", task_id |-> task_id, event_name |-> event_name,
                         duration |-> duration, poll_interval |-> poll_interval,
                         start_time |-> now, polls |-> 0, dispatched |-> << >>]
            IN  /\ nStarts < MaxStarts
                /\ nStarts' = nStarts + 1
                /\ IF filter_raises
                   THEN /\ active_tasks' = after.active_tasks
                        /\ tasks' = after.tasks
                        /\ last' = EndCall(task_id)
                        /\ ended' = [count |-> ended.count + 1,
                                     gas_used |-> ended.gas_used]
                        /\ listener' = [here EXCEPT !.pc = "raised"]
                        /\ ecall' = SourceCall("listen", event_name, "SourceError", TRUE, 1,
                                               << >>, << >>)
                   ELSE /\ active_tasks' = started
                        /\ last' = Call("start", task_id, "none")
                        /\ listener' = here
                        /\ ecall' = SourceCall("listen", event_name, "none", FALSE, 1,
                                               << >>, << >>)
                        /\ UNCHANGED <<tasks, ended>>
                /\ UNCHANGED <<now, sums, nUpdates, arg, threads, contract, event_handlers>>

\* the test at the top of the loop: if duration and (time - start_time) > duration
duration_exceeded(duration, elapsed) ==
    duration # None /\ duration[1] # 0 /\ elapsed > duration[1]

\* the calls of _process_event up to the one in which a handler raises
UpToFailure(calls, log) ==
    LET failed == {i \in 1 .. Len(calls) :
                      \E j \in 1 .. Len(log) : log[j].raised /\ log[j].event = calls[i].event}
    IN  IF failed = {} THEN calls
        ELSE SubSeq(calls, 1, CHOOSE i \in failed : \A k \in failed : i <= k)

\* an iteration in which the exception of a handler leaves the loop
listen_dispatch_unprotected(reg, new_events, event_name) ==
    LET done == ProcessAll(reg, new_events, event_name, 1, << >>, << >>)
        failed == \E j \in 1 .. Len(done.invoked) : done.invoked[j].raised
    IN  [event_handlers |-> done.event_handlers, invoked |-> done.invoked,
         dispatched |-> UpToFailure(done.dispatched, done.invoked),
         raised |-> IF failed THEN "HandlerError" ELSE "none"]

\* one iteration of the loop after get_new_entries returned new_events: each event
\* is given to _process_event, a handler that raises is caught there
listen_dispatch(reg, new_events, event_name) ==
    ProcessAll(reg, new_events, event_name, 1, << >>, << >>) @@ [raised |-> "none"]

\* the loop from its top to the await: it breaks, or it polls the source, dispatches
\* the new entries, updates the task when there were any, and goes to sleep
ListenIteration(outcome) ==
    /\ listener.pc = "check"
    /\ returned' = None
    /\ IF duration_exceeded(listener.duration, now - listener.start_time)
       THEN LET after == Ended(active_tasks, tasks, listener.task_id, now)
            IN  /\ active_tasks' = after.active_tasks
                /\ tasks' = after.tasks
                /\ last' = EndCall(listener.task_id)
                /\ ended' = [count |-> ended.count + 1,
                             gas_used |-> ended.gas_used
                                             + after.tasks[listener.task_id].gas_used]
                /\ listener' = [listener EXCEPT !.pc = "done"]
                /\ ecall' = SourceCall("listen_break", listener.event_name, "none", FALSE, 0,
                                       << >>, << >>)
                /\ invoked' = << >>
                /\ UNCHANGED <<now, sums, nStarts, nUpdates, arg, threads, contract, event_handlers>>
       ELSE IF outcome.raises
       THEN LET after == Ended(active_tasks, tasks, listener.task_id, now)
            IN  /\ active_tasks' = after.active_tasks
                /\ tasks' = after.tasks
                /\ last' = EndCall(listener.task_id)
                /\ ended' = [count |-> ended.count + 1,
                             gas_used |-> ended.gas_used
                                             + after.tasks[listener.task_id].gas_used]
                /\ listener' = [listener EXCEPT !.pc = "raised", !.polls = @ + 1]
                /\ ecall' = SourceCall("listen_poll", listener.event_name, "SourceError",
                                       TRUE, 1, << >>, << >>)
                /\ invoked' = << >>
                /\ UNCHANGED <<now, sums, nStarts, nUpdates, arg, threads, contract, event_handlers>>
       ELSE /\ Len(listener.dispatched) + Len(outcome.events) <= MaxPolled
            /\ \E done \in {listen_dispatch(event_handlers, outcome.events,
                                            listener.event_name)} :
                  /\ event_handlers' = done.event_handlers
                  /\ invoked' = done.invoked
                  /\ ecall' = SourceCall("listen_poll", listener.event_name, done.raised,
                                         FALSE, 1, outcome.events, done.dispatched)
                  /\ IF done.raised # "none"
                     THEN LET after == Ended(active_tasks, tasks, listener.task_id, now)
                          IN  /\ active_tasks' = after.active_tasks
                              /\ tasks' = after.tasks
                              /\ last' = EndCall(listener.task_id)
                              /\ ended' = [count |-> ended.count + 1,
                                           gas_used |-> ended.gas_used]
                              /\ listener' = [listener EXCEPT !.pc = "raised",
                                                              !.polls = @ + 1]
                              /\ UNCHANGED nUpdates
                     ELSE /\ listener' =
                               [listener EXCEPT
                                   !.pc = "sleep", !.polls = @ + 1,
                                   !.dispatched = @ \o
                                       [i \in 1 .. Len(done.dispatched) |->
                                           [poll |-> listener.polls + 1,
                                            event |-> done.dispatched[i].event,
                                            handled |->
                                               \E j \in 1 .. Len(done.invoked) :
                                                  done.invoked[j].event
                                                     = done.dispatched[i].event,
                                            failed |->
                                               \E j \in 1 .. Len(done.invoked) :
                                                  /\ done.invoked[j].raised
                                                  /\ done.invoked[j].event
                                                        = done.dispatched[i].event]]]
                          /\ IF outcome.events = << >>
                             THEN UNCHANGED <<active_tasks, last, nUpdates>>
                             ELSE /\ active_tasks' =
                                        DictSet(active_tasks, listener.task_id,
                                                update_task(active_tasks[listener.task_id],
                                                            PolledDelta(outcome.events)))
                                  /\ last' = Call("update", listener.task_id, "none")
                                  /\ nUpdates' = nUpdates + 1
                          /\ UNCHANGED <<tasks, ended>>
            /\ UNCHANGED <<now, sums, nStarts, arg, threads, contract>>

\* await asyncio.sleep(poll_interval) returns
ListenWake ==
    /\ listener.pc = "sleep"
    /\ now + listener.poll_interval <= MaxTime
    /\ now' = now + listener.poll_interval
    /\ listener' = [listener EXCEPT !.pc = "check"]
    /\ ecall' = SourceCall("listen_wake", listener.event_name, "none", FALSE, 0, << >>, << >>)
    /\ invoked' = << >>
    /\ returned' = None
    /\ UNCHANGED <<active_tasks, tasks, last, sums, nStarts, nUpdates, ended, arg, threads,
                   contract, event_handlers>>

\* a cancellation that leaves the task of the listener where it is
ListenCancelNoFinally ==
    /\ listener.pc = "sleep"
    /\ listener' = [listener EXCEPT !.pc = "cancelled"]
    /\ ecall' = SourceCall("listen_cancel", listener.event_name, "CancelledError", FALSE,
                           0,
                           << >>, << >>)
    /\ invoked' = << >>
    /\ returned' = None
    /\ UNCHANGED <<collectorVars, arg, threads, contract, event_handlers>>

\* the task that runs listen_to_events_async is cancelled during the sleep: the
\* await raises CancelledError, which is no Exception; the finally clause runs
ListenCancel ==
    /\ listener.pc = "sleep"
    /\ LET after == Ended(active_tasks, tasks, listener.task_id, now)
       IN  /\ active_tasks' = after.active_tasks
           /\ tasks' = after.tasks
           /\ ended' = [count |-> ended.count + 1,
                        gas_used |-> ended.gas_used + after.tasks[listener.task_id].gas_used]
    /\ last' = EndCall(listener.task_id)
    /\ listener' = [listener EXCEPT !.pc = "cancelled"]
    /\ ecall' = SourceCall("listen_cancel", listener.event_name, "CancelledError", FALSE,
                           0,
                           << >>, << >>)
    /\ invoked' = << >>
    /\ returned' = None
    /\ UNCHANGED <<now, sums, nStarts, nUpdates, arg, threads, contract, event_handlers>>

\* the outcomes of the two queries of a watch in which the external source fails
FailingOutcomes == {q \in QueryOutcomes : q[1].raises \/ q[2].raises}

NextPast ==
    \/ \E h \in Handlers : RegisterFew("Transfer", h)
    \/ \E n \in EventNames, o \in PollOutcomes(MaxPolled), step \in TimeSteps :
          GetPast(n, o, step)

SpecPast == InitWatch /\ [][NextPast]_vars

NextListen ==
    \/ \E h \in Handlers : RegisterFew("Transfer", h)
    \/ \E n \in EventNames, d \in Durations, i \in TimeSteps, r \in BOOLEAN :
          ListenStart(n, d, i, r)
    \/ \E o \in PollOutcomes(MaxPolled) : ListenIteration(o)
    \/ ListenWake
    \/ ListenCancel

SpecListen == InitWatch /\ [][NextListen]_vars

\* the loop of the listener runs on: the source answers, the sleep ends while the
\* clock has not reached MaxTime
FairSpecListen ==
    /\ SpecListen
    /\ WF_vars(\E o \in PollOutcomes(MaxPolled) : ListenIteration(o))
    /\ WF_vars(ListenWake)

\* the three methods that read the external source, with no handler registered and
\* a source that returns at most one event to get_past_events and to a poll
NextSource ==
    \/ \E a \in Addresses, q \in FailingOutcomes, step \in TimeSteps :
          Watch(a, q[1], q[2], step)
    \/ \E n \in EventNames, o \in PollOutcomes(1), step \in TimeSteps : GetPast(n, o, step)
    \/ \E n \in EventNames, d \in Durations, i \in TimeSteps, r \in BOOLEAN :
          ListenStart(n, d, i, r)
    \/ \E o \in PollOutcomes(1) : ListenIteration(o)
    \/ ListenWake
    \/ ListenCancel

SpecSource == InitWatch /\ [][NextSource]_vars

----------------------------------------------------------------------------
(* Concurrent callers of MetricsCollector, each with its own task_id *)

MaxCalls == 3

ThreadIds == {1, 2}

\* the task_id of a caller
ThreadKey(c) == IF c = 1 THEN "tx_001" ELSE "watch_transfers_0x742d35Cc"

\* the update of a sent transaction (balance_transfer.py:195)
ThreadDeltas == {Delta(Some(100000), Some(1), None, None, Some(1))}

\* the calls a caller makes
ThreadCalls ==
    {[op |-> "start", d |-> None], [op |-> "end", d |-> None]}
    \cup {[op |-> "update", d |-> Some(d)] : d \in ThreadDeltas}

\* one call made on a collector that no other caller uses, with the clock value t
\* the call read: the two mappings after it and what it raised
AloneCall(st, k, call, t) ==
    IF call.op = "start"
    THEN [active_tasks |-> start_task(st.active_tasks, k, "Test Task", "{}", t),
          tasks |-> st.tasks, raised |-> "none"]
    ELSE IF k \notin DOMAIN st.active_tasks
    THEN [st EXCEPT !.raised = "KeyError"]
    ELSE IF call.op = "update"
    THEN [active_tasks |-> DictSet(st.active_tasks, k,
                                   update_task(st.active_tasks[k], call.d[1])),
          tasks |-> st.tasks, raised |-> "none"]
    ELSE [active_tasks |-> DictPop(st.active_tasks, k),
          tasks |-> DictSet(st.tasks, k, end_task(st.active_tasks[k], t)),
          raised |-> "none"]

\* a caller between two calls: its local variable metrics is unbound. History:
\* the number of calls it has made, the collector its calls would have left had
\* they been made alone, and whether each call raised what it raises there
IdleThread ==
    [pc |-> "idle", call |-> None, metrics |-> None, ncalls |-> 0,
     alone |-> [active_tasks |-> EmptyDict, tasks |-> EmptyDict, raised |-> "none"],
     raised_as_alone |-> TRUE, interleaved |-> FALSE]

InitThreads ==
    /\ InitCollector
    /\ arg = None
    /\ returned = None
    /\ contract = FALSE
    /\ InitLogger
    /\ threads = [c \in ThreadIds |-> IdleThread]

\* the call of caller c, which read the clock value t, returns or raises
Return(c, th, raised, t) ==
    LET alone == AloneCall(th.alone, ThreadKey(c), th.call[1], t)
    IN  [th EXCEPT !.pc = "idle", !.call = None, !.metrics = None,
                   !.ncalls = @ + 1,
                   !.alone = alone,
                   !.raised_as_alone = @ /\ raised = alone.raised]

\* the other callers that are inside a call see a step of caller c between two
\* of their statements
Interleave(c, th) ==
    [o \in ThreadIds |->
        IF o = c THEN th
        ELSE IF threads[o].pc = "idle" THEN threads[o]
        ELSE [threads[o] EXCEPT !.interleaved = TRUE]]

\* caller c makes a call and runs its first statement: the construction of the
\* TaskMetrics in start_task, the membership test in update_task and end_task
ThreadCall(c, call) ==
    /\ threads[c].pc = "idle"
    /\ threads[c].ncalls < MaxCalls
    /\ LET k == ThreadKey(c)
           th == [threads[c] EXCEPT !.call = Some(call)]
       IN  threads' =
              Interleave(c,
                 IF call.op = "start"
                 THEN [th EXCEPT !.pc = "start_store",
                                 !.metrics = Some(TaskMetrics(k, "Test Task", "{}", now))]
                 ELSE IF k \notin DOMAIN active_tasks
                 THEN Return(c, th, "KeyError", 0)
                 ELSE IF call.op = "update"
                 THEN [th EXCEPT !.pc = "update_lookup"]
                 ELSE [th EXCEPT !.pc = "end_pop"])
    /\ UNCHANGED <<collectorVars, arg, returned, loggerVars>>

\* start_task: self.active_tasks[task_id] = metrics
ThreadStartStore(c) ==
    /\ threads[c].pc = "start_store"
    /\ active_tasks' = DictSet(active_tasks, ThreadKey(c), threads[c].metrics[1])
    /\ threads' = Interleave(c, Return(c, threads[c], "none", threads[c].metrics[1].start_time))
    /\ UNCHANGED <<tasks, now, last, sums, nStarts, nUpdates, ended, arg, returned,
                   loggerVars>>

\* update_task: metrics = self.active_tasks[task_id]; metrics is the record that
\* the mapping holds, not a copy of it
ThreadUpdateLookup(c) ==
    /\ threads[c].pc = "update_lookup"
    /\ threads' =
          Interleave(c,
             IF ThreadKey(c) \in DOMAIN active_tasks
             THEN [threads[c] EXCEPT !.pc = "update_add"]
             ELSE Return(c, threads[c], "KeyError", 0))
    /\ UNCHANGED <<collectorVars, arg, returned, loggerVars>>

\* update_task: the five conditional additions to the record; they reach the
\* mapping when the record is still in it
ThreadUpdateAdd(c) ==
    /\ threads[c].pc = "update_add"
    /\ LET k == ThreadKey(c)
       IN  active_tasks' =
              IF k \in DOMAIN active_tasks
              THEN DictSet(active_tasks, k,
                           update_task(active_tasks[k], threads[c].call[1].d[1]))
              ELSE active_tasks
    /\ threads' = Interleave(c, Return(c, threads[c], "none", 0))
    /\ UNCHANGED <<tasks, now, last, sums, nStarts, nUpdates, ended, arg, returned,
                   loggerVars>>

\* end_task: metrics = self.active_tasks.pop(task_id)
ThreadEndPop(c) ==
    /\ threads[c].pc = "end_pop"
    /\ LET k == ThreadKey(c)
       IN  IF k \in DOMAIN active_tasks
           THEN /\ active_tasks' = DictPop(active_tasks, k)
                /\ threads' = Interleave(c, [threads[c] EXCEPT
                                                !.pc = "end_complete",
                                                !.metrics = Some(active_tasks[k])])
           ELSE /\ threads' = Interleave(c, Return(c, threads[c], "KeyError", 0))
                /\ UNCHANGED active_tasks
    /\ UNCHANGED <<tasks, now, last, sums, nStarts, nUpdates, ended, arg, returned,
                   loggerVars>>

\* end_task: metrics.complete(), the score and the level, on the record popped
ThreadEndComplete(c) ==
    /\ threads[c].pc = "end_complete"
    /\ threads' = Interleave(c, [threads[c] EXCEPT
                                    !.pc = "end_store",
                                    !.metrics = Some(end_task(@[1], now))])
    /\ UNCHANGED <<collectorVars, arg, returned, loggerVars>>

\* end_task: self.tasks[task_id] = metrics
ThreadEndStore(c) ==
    /\ threads[c].pc = "end_store"
    /\ tasks' = DictSet(tasks, ThreadKey(c), threads[c].metrics[1])
    /\ threads' = Interleave(c, Return(c, threads[c], "none",
                                       threads[c].metrics[1].end_time[1]))
    /\ UNCHANGED <<active_tasks, now, last, sums, nStarts, nUpdates, ended, arg, returned,
                   loggerVars>>

NextThreads ==
    \/ \E d \in TimeSteps : Tick(d)
    \/ \E c \in ThreadIds, call \in ThreadCalls : ThreadCall(c, call)
    \/ \E c \in ThreadIds : ThreadStartStore(c)
    \/ \E c \in ThreadIds : ThreadUpdateLookup(c)
    \/ \E c \in ThreadIds : ThreadUpdateAdd(c)
    \/ \E c \in ThreadIds : ThreadEndPop(c)
    \/ \E c \in ThreadIds : ThreadEndComplete(c)
    \/ \E c \in ThreadIds : ThreadEndStore(c)

SpecThreads == InitThreads /\ [][NextThreads]_vars

----------------------------------------------------------------------------
(* BalanceTransfer.batch_transfer_async *)

MaxBatch == 3

\* the entries of the list recipients: an address and an amount in milli-ETH
Recipients ==
    { [address |-> "0x123", amount |-> 100], [address |-> "0x456", amount |-> 200] }

RecipientLists == {r \in SeqsUpTo(Recipients, MaxBatch) : r # << >>}

\* asyncio.get_event_loop() in a thread: the loop of the main thread, where the
\* batch runs; a worker thread of the default executor has no event loop and the
\* call raises RuntimeError there
get_event_loop(thread) == IF thread = "MainThread" THEN Some("loop") ELSE None

\* the worker thread in which run_in_executor(None, self.transfer, ...) calls transfer
ExecutorThread(i) == "asyncio_" \o ToString(i - 1)

\* no batch has been started
NoBatch == [pc |-> "idle", jobs |-> << >>]

InitBatch ==
    /\ InitCollector
    /\ arg = None
    /\ returned = None
    /\ contract = FALSE
    /\ InitLogger
    /\ threads = NoBatch

\* batch_transfer_async up to the await of gather: one transfer_async per recipient,
\* each of which hands self.transfer to the executor
BatchTransferAsync(recipients) ==
    /\ threads.pc = "idle"
    /\ threads' = [pc |-> "gather",
                   jobs |-> [i \in 1 .. Len(recipients) |->
                                [to_address |-> recipients[i].address,
                                 amount |-> recipients[i].amount,
                                 thread |-> ExecutorThread(i),
                                 pc |-> "submitted", task_id |-> None,
                                 result |-> None]]]
    /\ returned' = None
    /\ UNCHANGED <<collectorVars, arg, loggerVars>>

\* transfer runs in the worker thread of job i. Its arguments are positional, so
\* the decorators check nothing; the first statement computes task_id from
\* asyncio.get_event_loop().time(), which raises in the worker thread before
\* start_task is called: the job is done with that exception as its result
TransferInExecutor(i) ==
    /\ threads.pc = "gather"
    /\ i \in 1 .. Len(threads.jobs)
    /\ threads.jobs[i].pc = "submitted"
    /\ get_event_loop(threads.jobs[i].thread) = None
    /\ threads' = [threads EXCEPT !.jobs[i].pc = "done",
                                  !.jobs[i].result = Some("RuntimeError")]
    /\ UNCHANGED <<collectorVars, arg, returned, loggerVars>>

\* gather(*tasks, return_exceptions=True) returns when every job is done; the
\* batch returns the list of results, exceptions included
BatchGather ==
    /\ threads.pc = "gather"
    /\ \A i \in 1 .. Len(threads.jobs) : threads.jobs[i].pc = "done"
    /\ threads' = [threads EXCEPT !.pc = "returned"]
    /\ returned' = Some([i \in 1 .. Len(threads.jobs) |-> threads.jobs[i].result[1]])
    /\ UNCHANGED <<collectorVars, arg, loggerVars>>

NextBatch ==
    \/ \E d \in TimeSteps : Tick(d)
    \/ \E r \in RecipientLists : BatchTransferAsync(r)
    \/ \E i \in 1 .. MaxBatch : TransferInExecutor(i)
    \/ BatchGather

SpecBatch == InitBatch /\ [][NextBatch]_vars

----------------------------------------------------------------------------
(* Properties of the instrumentation engine *)

Counter(m, c) == m[c]

\* C1: no operation key is in the active mapping and in the completed mapping
\* at the same time.
C1_DisjointMappings == DOMAIN active_tasks \cap DOMAIN tasks = {}

\* C2 (as claimed): start on a key that is already active fails with a
\* duplicate-key error and leaves the active record in place.
C2_StartRejectsDuplicate ==
    [][\A k \in Keys :
        (last'.op = "start" /\ last'.key = k /\ k \in DOMAIN active_tasks)
        => (last'.raised = "DuplicateKeyError" /\ active_tasks' = active_tasks)]_vars

\* C2 (amended): start on a key that is already active raises nothing and replaces
\* the active record of that key by a fresh one (counters zero, no end time, no
\* score, no level, started now); other active records and the completed mapping
\* are unchanged.
C2_StartReplacesActive ==
    [][\A k \in Keys :
        (last'.op = "start" /\ last'.key = k /\ k \in DOMAIN active_tasks)
        => /\ last'.raised = "none"
           /\ DOMAIN active_tasks' = DOMAIN active_tasks
           /\ active_tasks'[k] =
                TaskMetrics(k, active_tasks'[k].task_name, active_tasks'[k].metadata, now)
           /\ \A j \in DOMAIN active_tasks \ {k} : active_tasks'[j] = active_tasks[j]
           /\ tasks' = tasks]_vars

\* a start has just replaced an active record that had counted something
C2_Witness ==
    /\ last.op = "start" /\ last.was_active /\ last.raised = "none"
    /\ last.replaced # None
    /\ last.replaced[1].gas_used # 0
    /\ last.replaced[1].start_time < now
    /\ active_tasks[last.key].gas_used = 0

\* C3: end on a key that is not active raises the unknown-key error (KeyError) and
\* leaves the active and the completed mapping as they were.
C3_EndUnknownKey ==
    [][\A k \in Keys :
        (last'.op = "end" /\ last'.key = k /\ k \notin DOMAIN active_tasks)
        => (last'.raised = "KeyError" /\ active_tasks' = active_tasks /\ tasks' = tasks)]_vars

\* a second end of a key whose first end succeeded
C3_Witness ==
    /\ last.op = "end" /\ last.raised = "KeyError"
    /\ ~last.was_active /\ last.was_done
    /\ last.key \in DOMAIN tasks

\* C4: update on a key that is not active (also one that is only completed) raises
\* the unknown-key error (KeyError) and changes no active and no completed record.
C4_UpdateUnknownKey ==
    [][\A k \in Keys :
        (last'.op = "update" /\ last'.key = k /\ k \notin DOMAIN active_tasks)
        => (last'.raised = "KeyError" /\ active_tasks' = active_tasks /\ tasks' = tasks)]_vars

\* an update of a key that is completed and not active, while another key is active
C4_Witness ==
    /\ last.op = "update" /\ last.raised = "KeyError"
    /\ ~last.was_active /\ last.was_done
    /\ last.key \in DOMAIN tasks
    /\ DOMAIN active_tasks # {}

\* C5: every active record has no score and no level; every completed record has
\* both.
C5_ScorePresence ==
    /\ \A k \in DOMAIN active_tasks :
          active_tasks[k].complexity_score = None /\ active_tasks[k].complexity_level = None
    /\ \A k \in DOMAIN tasks :
          tasks[k].complexity_score # None /\ tasks[k].complexity_level # None

\* an updated active record beside a completed one
C5_Witness ==
    /\ \E k \in DOMAIN active_tasks : sums[k].count > 0
    /\ \E k \in DOMAIN tasks : tasks[k].complexity_level \in {Some(l) : l \in ComplexityLevel}

\* C6: an accepted update never decreases a counter of the operation and never makes
\* one negative.
C6_CountersMonotone ==
    [][\A k \in Keys :
        (last'.op = "update" /\ last'.key = k /\ last'.raised = "none")
        => \A c \in CounterNames :
              /\ Counter(active_tasks'[k], c) >= Counter(active_tasks[k], c)
              /\ Counter(active_tasks'[k], c) >= 0]_vars

\* C7: a record of the completed mapping never changes and is never removed or
\* replaced.
C7_CompletedFrozen ==
    [][\A k \in DOMAIN tasks : k \in DOMAIN tasks' /\ tasks'[k] = tasks[k]]_vars

\* C8: each counter of an active record is the sum of the deltas supplied for it by
\* the updates since the start of the record, and is zero when no update supplied it.
C8_CountersAreSums ==
    \A k \in DOMAIN active_tasks : \A c \in CounterNames :
        /\ Counter(active_tasks[k], c) = sums[k].total[c]
        /\ (c \notin sums[k].given => Counter(active_tasks[k], c) = 0)

\* two updates of one operation that both supplied gas_used and transaction_count,
\* while no update supplied data_size
C8_Witness ==
    \E k \in DOMAIN active_tasks :
        /\ sums[k].count >= 2
        /\ active_tasks[k].gas_used = 600000
        /\ active_tasks[k].transaction_count = 11
        /\ "data_size" \notin sums[k].given

\* C9: the complexity score of every completed record lies in 0.00 .. 100.00.
C9_ScoreInRange ==
    \A k \in DOMAIN tasks :
        tasks[k].complexity_score # None
        => (tasks[k].complexity_score[1] >= 0 /\ tasks[k].complexity_score[1] <= 10000)

\* C10: the level of every completed record is categorize_complexity of the score
\* stored in that record.
C10_LevelMatchesScore ==
    \A k \in DOMAIN tasks :
        tasks[k].complexity_level = Some(categorize_complexity(tasks[k].complexity_score[1]))

\* completed records in two different bands, one of them above SIMPLE because of
\* its duration alone
C10_Witness ==
    /\ \E k \in DOMAIN tasks :
          /\ tasks[k].complexity_level = Some("MODERATE")
          /\ tasks[k].gas_used = 0 /\ tasks[k].execution_time = Some(10000)
    /\ \E k \in DOMAIN tasks : tasks[k].complexity_level = Some("EXTREME")

C12_EmptySummary ==
    (last.op = "summary" /\ DOMAIN tasks = {})
    => /\ returned # None
       /\ returned[1].total_tasks = 0
       /\ returned[1].avg_complexity_score = 0
       /\ returned[1].avg_execution_time = 0
       /\ returned[1].total_gas_used = 0

\* a summary taken with nothing completed while an updated task is active
C12_Witness ==
    /\ last.op = "summary" /\ DOMAIN tasks = {} /\ returned # None
    /\ \E k \in DOMAIN active_tasks : active_tasks[k].gas_used > 0

HasHistogram(summary, completed) ==
    /\ DOMAIN summary.complexity_distribution = ComplexityLevel
    /\ \A l \in ComplexityLevel :
          summary.complexity_distribution[l] =
              Cardinality({k \in DOMAIN completed : completed[k].complexity_level = Some(l)})

\* C13 (as claimed): every summary has a histogram entry for each of the five
\* levels, zero for a level no completed task has.
C13_HistogramAlways ==
    last.op = "summary" => HasHistogram(returned[1], tasks)

\* C13 (amended): a summary of at least one completed task has a histogram entry
\* for each of the five levels, zero for a level no completed task has; the
\* summary of no completed task has an empty histogram.
C13_HistogramWhenCompleted ==
    last.op = "summary"
    => IF DOMAIN tasks = {}
       THEN DOMAIN returned[1].complexity_distribution = {}
       ELSE HasHistogram(returned[1], tasks)

\* a summary of two completed tasks of different levels
C13_Witness ==
    /\ last.op = "summary"
    /\ \E k, j \in DOMAIN tasks : tasks[k].complexity_level # tasks[j].complexity_level
    /\ \E l \in ComplexityLevel : returned[1].complexity_distribution[l] = 0

\* C14: a summary counts the successful end calls made so far and totals the gas
\* of the operations they completed.
C14_SummaryCountsEnds ==
    last.op = "summary"
    => /\ returned[1].total_tasks = ended.count
       /\ returned[1].total_gas_used = ended.gas_used

----------------------------------------------------------------------------
(* Properties of the event watch engine *)

\* the list of an event name, empty when the registry has none
ListOf(reg, event_name) == IF event_name \in DOMAIN reg THEN reg[event_name] ELSE << >>

\* how often h occurs in list from index i on
CountFrom(list, h, i) == Cardinality({j \in i .. Len(list) : list[j] = h})

HandlersOf(log) == [i \in 1 .. Len(log) |-> log[i].handler]

\* C15: a dispatch invokes each handler as many times as it is registered under
\* the event name, at the positions of its registrations.
C15_InvokedPerRegistration ==
    [][ecall'.op = "dispatch"
       => \A h \in Handlers :
             {i \in 1 .. Len(invoked') : invoked'[i].handler = h}
             = {i \in 1 .. Len(ListOf(event_handlers, ecall'.kind)) :
                   ListOf(event_handlers, ecall'.kind)[i] = h}]_vars

\* C16: a dispatch invokes the handlers of the list of the event name, once per
\* registration and in registration order, each with the dispatched event, and no
\* handler that is not in that list.
C16_DispatchInOrder ==
    [][ecall'.op = "dispatch"
       => LET list == ListOf(event_handlers, ecall'.kind)
          IN  /\ HandlersOf(invoked') = list
              /\ \A i \in 1 .. Len(invoked') :
                    /\ invoked'[i].event = ecall'.event[1]
                    /\ invoked'[i].event_name = ecall'.kind
                    /\ Contains(list, invoked'[i].handler)]_vars

\* C17: when a handler fails during a dispatch, the handlers registered after it
\* under the event name are still invoked, and the dispatch raises nothing.  Stated
\* for a failing handler that is registered once, so that "after it" names one place.
C17_FailureDoesNotStopDispatch ==
    [][ecall'.op = "dispatch"
       => /\ ecall'.raised = "none"
          /\ LET list == ListOf(event_handlers, ecall'.kind)
                 ran == HandlersOf(invoked')
             IN  \A q \in 1 .. Len(list), p \in 1 .. Len(ran) :
                    (list[q] = "failing" /\ CountFrom(list, "failing", 1) = 1
                     /\ ran[p] = "failing" /\ invoked'[p].raised)
                    => \A h \in Handlers :
                          CountFrom(ran, h, p + 1) >= CountFrom(list, h, q + 1)]_vars

\* C18: unregister of a handler that is not in the list of the event name, or of an
\* event name that has no list, raises nothing and leaves the registry unchanged.
C18_UnregisterAbsent ==
    [][(ecall'.op = "unregister"
        /\ ~Contains(ListOf(event_handlers, ecall'.kind), ecall'.handler))
       => (ecall'.raised = "none" /\ event_handlers' = event_handlers)]_vars

\* an unregister of a handler that other handlers' list does not hold, after an
\* unregister of an unknown event name could have happened
C18_Witness ==
    /\ ecall.op = "unregister" /\ ~ecall.was_registered /\ ecall.raised = "none"
    /\ ecall.kind \in DOMAIN event_handlers
    /\ Len(event_handlers[ecall.kind]) > 0
    /\ \E n \in EventNames : n \notin DOMAIN event_handlers

\* the transaction hashes of a list of events
TxIds(events) == {events[i].transactionHash : i \in 1 .. Len(events)}

\* the results of the two queries of the last watch, concatenated
Queried == ecall.queries[1].from_events \o ecall.queries[1].to_events

\* C19: the list watch_address_transfers returns holds every transaction hash of
\* the two query results exactly once, and no other.
C19_EachTransactionOnce ==
    (ecall.op = "watch" /\ returned # None)
    => \A id \in TxIds(Queried) \cup TxIds(returned[1]) :
          Cardinality({i \in 1 .. Len(returned[1]) :
                          returned[1][i].transactionHash = id}) = 1

\* a watch whose query results share a transaction hash, one of them holding a
\* hash twice, has returned
C19_Witness ==
    /\ ecall.op = "watch" /\ ecall.raised = "none" /\ returned # None
    /\ TxIds(ecall.queries[1].from_events) \cap TxIds(ecall.queries[1].to_events) # {}
    /\ \E i, j \in 1 .. Len(ecall.queries[1].from_events) :
          /\ i < j
          /\ ecall.queries[1].from_events[i].transactionHash
                = ecall.queries[1].from_events[j].transactionHash
    /\ Len(returned[1]) < Len(Queried)

\* C20: the list watch_address_transfers returns is the concatenation of the two
\* query results in which, of the events of one transaction hash, only the first
\* stays, where it was.
C20_KeepsFirstOccurrence ==
    (ecall.op = "watch" /\ returned # None)
    => returned[1]
          = ElementsAt(Queried,
                       {i \in 1 .. Len(Queried) :
                           \A j \in 1 .. i - 1 :
                              Queried[j].transactionHash # Queried[i].transactionHash})

\* C21: watch_address_transfers on an EventLogger without a contract raises the
\* ValueError that says so, issues no query and dispatches no event.
C21_NoContract ==
    (ecall.op = "watch" /\ ~contract)
    => /\ ecall.raised = "ValueError"
       /\ ecall.queries[1].issued = 0
       /\ ecall.dispatched = << >>
       /\ invoked = << >>
       /\ returned = None

\* a watch without a contract while a handler is registered for Transfer
C21_Witness ==
    /\ ecall.op = "watch" /\ ~contract /\ ecall.raised = "ValueError"
    /\ ListOf(event_handlers, "Transfer") # << >>

\* C23: when watch_address_transfers returns its list, _process_event has been
\* called with 'Transfer' for every event of the list, once each, in the order of
\* the list, and for nothing else.
C23_SurvivorsDispatched ==
    (ecall.op = "watch" /\ returned # None)
    => ecall.dispatched
          = [i \in 1 .. Len(returned[1]) |->
                [event |-> returned[1][i], event_name |-> "Transfer"]]

\* a watch that dropped a duplicate has returned two events, with handlers invoked
C23_Witness ==
    /\ ecall.op = "watch" /\ returned # None
    /\ Len(returned[1]) = 2 /\ Len(Queried) > 2
    /\ Len(ecall.dispatched) = 2
    /\ invoked # << >>

\* C22: when the external source fails in a query of watch_address_transfers,
\* get_past_events or listen_to_events_async, the failure is raised to the caller,
\* and the task the method started is then completed, with score and level, and is
\* not active.
C22_FailureFinalizes ==
    (ecall.queries # None /\ ecall.queries[1].failed)
    => /\ ecall.raised = "SourceError"
       /\ last.op = "end"
       /\ last.key \notin DOMAIN active_tasks
       /\ last.key \in DOMAIN tasks
       /\ tasks[last.key].complexity_score # None
       /\ tasks[last.key].complexity_level # None

\* the source fails in a poll of a listener that had got an event before, after a
\* watch in which the source had failed too
C22_Witness ==
    /\ ecall.op = "listen_poll" /\ ecall.queries[1].failed
    /\ listener.pc = "raised" /\ listener.polls > 1
    /\ listener.task_id \in DOMAIN tasks
    /\ tasks[listener.task_id].network_requests = 1
    /\ \E a \in Addresses : WatchTaskId(a) \in DOMAIN tasks

\* C24: get_past_events on an EventLogger with a contract issues one query; when
\* it returns, it returns the list the source gave, same events, same order, same
\* multiplicity, and _process_event has been called once for each of them, in that
\* order, with the event name asked for.
C24_PastEventsAsRetrieved ==
    (ecall.op = "get_past" /\ contract)
    => /\ ecall.queries[1].issued = 1
       /\ ecall.raised = "none"
            => /\ returned = Some(ecall.queries[1].from_events)
               /\ ecall.dispatched
                     = [i \in 1 .. Len(ecall.queries[1].from_events) |->
                           [event |-> ecall.queries[1].from_events[i],
                            event_name |-> ecall.kind]]

\* get_past_events has returned a list that holds a transaction hash twice, and
\* handlers were invoked
C24_Witness ==
    /\ ecall.op = "get_past" /\ ecall.raised = "none" /\ returned # None
    /\ Len(returned[1]) = 2
    /\ returned[1][1].transactionHash = returned[1][2].transactionHash
    /\ Len(invoked) >= 2

\* C25: a listener that was given a duration, 0 included, and is at the top of its
\* loop with more time elapsed than the duration, leaves the loop in its next step:
\* it ends normally with its task completed and polls the source no more.
C25_ListenTerminates ==
    /\ [][(/\ listener.pc = "check"
           /\ listener.duration # None
           /\ now - listener.start_time > listener.duration[1]
           /\ listener' # listener)
          => (/\ listener'.pc = "done"
              /\ listener'.polls = listener.polls
              /\ listener.task_id \in DOMAIN tasks'
              /\ listener.task_id \notin DOMAIN active_tasks')]_vars
    /\ (/\ listener.pc = "check"
        /\ listener.duration # None
        /\ now - listener.start_time > listener.duration[1])
       ~> (/\ listener.pc = "done"
           /\ listener.task_id \in DOMAIN tasks
           /\ listener.task_id \notin DOMAIN active_tasks)

\* C26: the listener invokes no handler for an event whose transaction hash the
\* source had returned in an earlier poll.
C26_NoRepeatedDispatch ==
    \A i, j \in 1 .. Len(listener.dispatched) :
       (/\ listener.dispatched[i].poll < listener.dispatched[j].poll
        /\ listener.dispatched[i].event.transactionHash
              = listener.dispatched[j].event.transactionHash)
       => ~listener.dispatched[j].handled

\* C27: an iteration of the listener in which the source returned and a handler
\* raised raises nothing: every event of the poll has been given to _process_event,
\* in order, the task stays active and the listener goes to its sleep; from the
\* sleep it is either cancelled or at the top of the loop one poll interval later.
C27_HandlerFailureKeepsLoop ==
    [][/\ (/\ listener.pc = "check"
           /\ ecall'.op = "listen_poll"
           /\ ~ecall'.queries[1].failed
           /\ \E j \in 1 .. Len(invoked') : invoked'[j].raised)
          => /\ ecall'.raised = "none"
             /\ Len(ecall'.dispatched) = Len(ecall'.queries[1].from_events)
             /\ \A i \in 1 .. Len(ecall'.dispatched) :
                   /\ ecall'.dispatched[i].event = ecall'.queries[1].from_events[i]
                   /\ ecall'.dispatched[i].event_name = listener.event_name
             /\ listener'.pc = "sleep"
             /\ listener'.polls = listener.polls + 1
             /\ listener.task_id \in DOMAIN active_tasks'
             /\ listener.task_id \notin DOMAIN tasks'
       /\ (listener.pc = "sleep" /\ listener' # listener)
          => \/ listener'.pc = "cancelled"
             \/ /\ listener'.pc = "check"
                /\ now' = now + listener.poll_interval
                /\ listener.task_id \in DOMAIN active_tasks']_vars

\* a handler raised for the first of the two events of the first poll, the second
\* event was dispatched, and a second poll has taken place
C27_Witness ==
    /\ listener.polls >= 2
    /\ listener.pc = "sleep"
    /\ Len(listener.dispatched) = 2
    /\ listener.dispatched[1].poll = 1 /\ listener.dispatched[1].failed
    /\ listener.dispatched[2].poll = 1
    /\ listener.dispatched[2].event # listener.dispatched[1].event
    /\ listener.task_id \in DOMAIN active_tasks

\* C28: a cancellation during the sleep raises CancelledError with no query and no
\* dispatch, the task of the listener is completed by that step, and the cancelled
\* listener polls and dispatches nothing afterwards.
C28_CancelEndsListener ==
    [][/\ (listener.pc = "sleep" /\ listener'.pc = "cancelled")
          => /\ ecall'.raised = "CancelledError"
             /\ ecall'.queries[1].issued = 0
             /\ ecall'.dispatched = << >>
             /\ invoked' = << >>
             /\ listener.task_id \in DOMAIN active_tasks
             /\ listener.task_id \in DOMAIN tasks'
             /\ listener.task_id \notin DOMAIN active_tasks'
             /\ tasks'[listener.task_id].end_time = Some(now)
             /\ listener'.polls = listener.polls
             /\ listener'.dispatched = listener.dispatched
       /\ listener.pc = "cancelled"
          => /\ listener' = listener
             /\ ecall'.op \notin {"listen_poll", "listen_break", "listen_wake"}
             /\ tasks' = tasks]_vars

C28_Witness ==
    /\ listener.pc = "cancelled"
    /\ ecall.op = "listen_cancel"
    /\ listener.polls >= 1
    /\ Len(listener.dispatched) >= 1
    /\ listener.task_id \in DOMAIN tasks
    /\ listener.task_id \notin DOMAIN active_tasks

\* C29: whenever a caller is between two calls, the active mapping and the
\* completed mapping hold for its key exactly what its calls made alone, in order,
\* would have left there, each of its calls raised what it would have raised alone,
\* and the two mappings hold no key that is not the key of a caller.
C29_DistinctKeysIndependent ==
    /\ \A c \in ThreadIds :
          threads[c].pc = "idle"
          => LET k == ThreadKey(c)
                 alone == threads[c].alone
             IN  /\ k \in DOMAIN active_tasks <=> k \in DOMAIN alone.active_tasks
                 /\ k \in DOMAIN active_tasks => active_tasks[k] = alone.active_tasks[k]
                 /\ k \in DOMAIN tasks <=> k \in DOMAIN alone.tasks
                 /\ k \in DOMAIN tasks => tasks[k] = alone.tasks[k]
                 /\ threads[c].raised_as_alone
    /\ DOMAIN active_tasks \cup DOMAIN tasks \subseteq {ThreadKey(c) : c \in ThreadIds}

\* both callers have started, updated and ended their task, each inside a call
\* while the other took a step, and both are between calls
C29_Witness ==
    \A c \in ThreadIds :
       /\ threads[c].pc = "idle"
       /\ threads[c].interleaved
       /\ threads[c].ncalls = 3
       /\ ThreadKey(c) \in DOMAIN tasks
       /\ ThreadKey(c) \notin DOMAIN active_tasks
       /\ tasks[ThreadKey(c)].network_requests > 0

\* C30: when a batch has returned, every transfer of it has been tracked under a
\* task_id of its own, the completed mapping holds one record for each transfer
\* and one for each nested balance lookup, nothing is left active and no result is
\* a KeyError.
C30_BatchTracked ==
    threads.pc = "returned"
    => /\ \A i \in 1 .. Len(threads.jobs) :
             /\ threads.jobs[i].task_id # None
             /\ threads.jobs[i].task_id[1] \in DOMAIN tasks
             /\ threads.jobs[i].result # Some("KeyError")
             /\ \A j \in 1 .. Len(threads.jobs) :
                   j # i => threads.jobs[j].task_id # threads.jobs[i].task_id
       /\ Cardinality(DOMAIN tasks) = 2 * Len(threads.jobs)
       /\ active_tasks = EmptyDict

\* C32: a successful end of a key removes the key from the active mapping and puts
\* it into the completed mapping with the five counters, the metadata, the name and
\* the start time of the active record; the records of every other key, active or
\* completed, stay as they were.
C32_EndFrame ==
    [][\A k \in Keys :
        (last'.op = "end" /\ last'.key = k /\ last'.raised = "none")
        => /\ k \in DOMAIN active_tasks
           /\ k \notin DOMAIN active_tasks'
           /\ k \in DOMAIN tasks'
           /\ \A c \in CounterNames : tasks'[k][c] = active_tasks[k][c]
           /\ tasks'[k].metadata = active_tasks[k].metadata
           /\ tasks'[k].task_name = active_tasks[k].task_name
           /\ tasks'[k].start_time = active_tasks[k].start_time
           /\ DOMAIN active_tasks' = DOMAIN active_tasks \ {k}
           /\ DOMAIN tasks' = DOMAIN tasks \cup {k}
           /\ \A o \in Keys \ {k} :
                 /\ o \in DOMAIN active_tasks => active_tasks'[o] = active_tasks[o]
                 /\ o \in DOMAIN tasks => tasks'[o] = tasks[o]]_vars

\* a key with counters above zero has just been ended while the other key is active
C32_Witness ==
    /\ last.op = "end" /\ last.raised = "none"
    /\ last.key \in DOMAIN tasks
    /\ tasks[last.key].gas_used > 0
    /\ tasks[last.key].network_requests > 0
    /\ \E o \in Keys \ {last.key} :
          o \in DOMAIN active_tasks /\ active_tasks[o].network_requests > 0

\* C33: unregister_handler of a handler that is in the list of the event name
\* deletes the element at the least index that holds the handler and nothing else:
\* the elements before it and after it keep their order, later occurrences of the
\* handler stay, and the lists of the other event names are unchanged.
C33_UnregisterFirstOccurrence ==
    [][\A n \in EventNames, h \in Handlers :
        (/\ ecall'.op = "unregister" /\ ecall'.kind = n /\ ecall'.handler = h
         /\ n \in DOMAIN event_handlers
         /\ Contains(event_handlers[n], h))
        => LET list == event_handlers[n]
               first == CHOOSE i \in 1 .. Len(list) :
                            list[i] = h /\ \A j \in 1 .. Len(list) : list[j] = h => i <= j
           IN  /\ DOMAIN event_handlers' = DOMAIN event_handlers
               /\ Len(event_handlers'[n]) = Len(list) - 1
               /\ \A j \in 1 .. Len(list) - 1 :
                     event_handlers'[n][j] = IF j < first THEN list[j] ELSE list[j + 1]
               /\ \A o \in DOMAIN event_handlers \ {n} :
                     event_handlers'[o] = event_handlers[o]]_vars

\* a handler that was registered more than once has been unregistered once: it is
\* still in the list, behind another handler
C33_Witness ==
    /\ ecall.op = "unregister" /\ ecall.was_registered
    /\ ecall.kind \in DOMAIN event_handlers
    /\ Len(event_handlers[ecall.kind]) = 2
    /\ event_handlers[ecall.kind][1] # ecall.handler
    /\ event_handlers[ecall.kind][2] = ecall.handler

\* C34: a call of watch_address_transfers that returns its list has started one
\* task and ended one task, the task of the address watched; that task is then in
\* the completed mapping with network_requests = 2 and is not active, and no other
\* key has entered or left either mapping.
C34_WatchIsOneOperation ==
    [][(ecall'.op = "watch" /\ returned' # None)
       => /\ nStarts' = nStarts + 1
          /\ ended'.count = ended.count + 1
          /\ \E a \in Addresses : last'.key = WatchTaskId(a)
          /\ last'.key \in DOMAIN tasks'
          /\ last'.key \notin DOMAIN active_tasks'
          /\ tasks'[last'.key].network_requests = 2
          /\ tasks'[last'.key].task_name = "Watch Address Transfers"
          /\ DOMAIN tasks' = DOMAIN tasks \cup {last'.key}
          /\ DOMAIN active_tasks' = DOMAIN active_tasks \ {last'.key}]_vars

\* a watch has returned one event, which a handler got: its task is completed
\* with two network requests
C34_Witness ==
    /\ ecall.op = "watch" /\ returned # None
    /\ Len(returned[1]) = 1
    /\ invoked # << >>
    /\ last.key \in DOMAIN tasks
    /\ tasks[last.key].network_requests = 2

\* C35: when the loop of a listener has ended at its duration, the task of the
\* listener is completed and its network_requests counter is the number of
\* get_new_entries queries the loop issued, those that returned no event included.
C35_ListenCountsQueries ==
    listener.pc = "done"
    => /\ listener.task_id \in DOMAIN tasks
       /\ tasks[listener.task_id].network_requests = listener.polls

\* C36: calculate_complexity_score returns 100.00 for a record with gas_used at
\* or above 500000, transaction_count at or above 10, contract_calls at or above 10,
\* network_requests at or above 20 and an execution time of 10 seconds or more.
C36_ScoreAtCeilings ==
    (/\ returned # None
     /\ OrZero(arg[1].execution_time) >= 10000
     /\ arg[1].gas_used >= 500000
     /\ arg[1].transaction_count >= 10
     /\ arg[1].contract_calls >= 10
     /\ arg[1].network_requests >= 20)
    => returned = Some(10000)

\* the score of a record with every counter and the time above the ceilings
C36_Witness ==
    /\ returned = Some(10000)
    /\ OrZero(arg[1].execution_time) > 10000
    /\ arg[1].gas_used > 500000
    /\ arg[1].transaction_count > 10
    /\ arg[1].contract_calls > 10
    /\ arg[1].network_requests > 20

\* the sum of the scores stored in a completed mapping, in hundredths
TotalScore(completed) ==
    SumValues([k \in DOMAIN completed |-> completed[k].complexity_score[1]])

\* C37: the avg_complexity_score of a summary of N >= 1 completed tasks is a
\* two-decimal number nearest to the arithmetic mean of the N stored scores: it
\* differs from the mean by at most 0.005, and total_tasks is N.
C37_MeanScore ==
    (returned # None /\ DOMAIN arg[1] # {})
    => LET n == Cardinality(DOMAIN arg[1])
           total == TotalScore(arg[1])
           avg == returned[1].avg_complexity_score
       IN  /\ returned[1].total_tasks = n
           /\ 2 * (avg * n - total) <= n
           /\ 2 * (total - avg * n) <= n

\* the summary of three completed tasks whose mean score is rounded up
C37_Witness ==
    /\ returned # None
    /\ Cardinality(DOMAIN arg[1]) = 3
    /\ TotalScore(arg[1]) % 3 = 2
    /\ returned[1].avg_complexity_score * 3 = TotalScore(arg[1]) + 1

\* C38: in a dispatch during which a handler changed the list of the event name,
\* every handler that was in the list when the dispatch began, other than the
\* handlers that took themselves out, is invoked exactly as often as it was
\* registered: none is skipped and none is invoked again.
C38_DispatchOverSnapshot ==
    [][(/\ ecall'.op = "dispatch"
        /\ ListOf(event_handlers', ecall'.kind) # ListOf(event_handlers, ecall'.kind))
       => \A h \in Handlers \ {"one_shot"} :
             CountFrom(HandlersOf(invoked'), h, 1)
                = CountFrom(ListOf(event_handlers, ecall'.kind), h, 1)]_vars

\* C39: a call of watch_address_transfers, get_past_events or
\* listen_to_events_async that raises the ValueError for the missing contract
\* leaves the active mapping and the completed mapping as they were.
C39_NoContractNoRecord ==
    [][(/\ ecall'.op \in {"watch", "get_past", "listen"}
        /\ ecall'.raised = "ValueError")
       => /\ active_tasks' = active_tasks
          /\ tasks' = tasks]_vars

\* C31: a call of the decorated watch_address_transfers whose address argument is
\* no valid address, given by keyword or by position, raises ValidationError, and
\* then no task has been started and no query has been issued.
C31_InvalidAddressRejected ==
    (ecall.op = "watch" /\ ~is_address(arg[1].address))
    => /\ ecall.raised = "ValidationError"
       /\ ecall.queries[1].issued = 0
       /\ active_tasks = EmptyDict
       /\ tasks = EmptyDict
       /\ nStarts = 0

\* C40: an invocation of the wrapped function, nested in another one or not, in
\* the millisecond of another one or not, ends as the wrapped function ended (it
\* returns its result or raises its exception), and the operation it started is
\* then in the completed mapping and not in the active mapping.
C40_WrapperIsTransparent ==
    returned # None
    => /\ returned[1].wrapper = returned[1].func
       /\ returned[1].task_id \in DOMAIN tasks
       /\ returned[1].task_id \notin DOMAIN active_tasks

====
